---------------------------- MODULE Spec2Model ----------------------------
(***************************************************************************)
(* A model of the DSL runtime of framework/service: the flow combinators   *)
(* of flow.py (retry, pipe, branch, switch, timeout, race, batch, catch),  *)
(* the evaluator of language.py (ConfigTransformer.dictionary, DSLVisitor  *)
(* with its depth counter, its run on a record with triggers, its event    *)
(* and cron loops against the wall clock), and the trigger scheduler of    *)
(* flow2.py (TriggerEngine).  Each subsystem has its own specification     *)
(* over the shared variables; the variables of the subsystems that a       *)
(* specification does not exercise stay at their idle value.               *)
(***************************************************************************)
EXTENDS Integers, Sequences, FiniteSets, TLC

VARIABLES
    rt,     \* flow.retry: one invocation of retry(action_step, attempts, delay)
    pp,     \* flow.pipe: one invocation of pipe(*stages)
    sw,     \* flow.switch: one invocation of switch(cases)
    tm,     \* flow.timeout: one invocation of timeout(action_step, max_seconds)
    ev,     \* language.DSLVisitor: one run of the evaluator on a root record
    rc,     \* flow.race: one invocation of race(*steps_to_run)
    bt,     \* flow.batch: one invocation of batch(*steps_to_run)
    ct,     \* flow.catch: one invocation of catch(try_step, catch_step)
    el,     \* language.DSLVisitor: one trigger task (_start_trigger)
    te,     \* flow2.TriggerEngine: the scheduler and its trigger tasks
    cr,     \* language.DSLVisitor: one cron task (_cron_loop) and the wall clock
    br,     \* flow.branch: a pipe whose last stage is branch(on_success, on_failure)
    rn,     \* language.DSLVisitor: run on a parsed record with triggers, and its trigger tasks
    dp      \* language.DSLVisitor: _recursion_depth across the visits of trigger iterations

vars == <<rt, pp, sw, tm, ev, rc, bt, ct, el, te, cr, br, rn, dp>>

Idle == [pc |-> "idle"]

\* ------------------------------------------------------------------------
\* Bounds of the model
\* ------------------------------------------------------------------------
MaxAttempts == 5
MaxStages == 3
MaxCases == 3
MaxSeconds == 3
MaxData == 2
MaxArgs == 3
MaxSteps == 3
MaxPolls == 3
MaxTriggers == 2
MaxMinutes == 4
MaxItems == 3
MaxIterations == 3

\* ------------------------------------------------------------------------
\* Values (spec section 3; the Python objects the code handles)
\* ------------------------------------------------------------------------
VNull == [t |-> "null"]
VBool(b) == [t |-> "bool", b |-> b]
VInt(i) == [t |-> "int", n |-> i]
\* A float, held as a count of halves: VFloat(5) is 2.5, VFloat(4) is 2.0.
VFloat(h) == [t |-> "float", h |-> h]
VStr(x) == [t |-> "str", s |-> x]
VList(items) == [t |-> "list", items |-> items]
VTuple(items) == [t |-> "tuple", items |-> items]
\* A dict: its keys and the value of each.
VDict(f) == [t |-> "dict", f |-> f]
\* A transaction envelope: a dict with 'success' and 'data'.
VEnv(success, data) == [t |-> "env", success |-> success, data |-> data]
\* A user-defined function: the (params, body, returns) tuple of the AST.
VFn(def) == [t |-> "fn", def |-> def]
\* A host callable of the registry, a type class, the bound method
\* execute_dsl_function, an unevaluated piece of AST.
VHost(name) == [t |-> "host", name |-> name]
VType(cls) == [t |-> "type", cls |-> cls]
VExecutor == [t |-> "executor"]
VAst(node) == [t |-> "ast", node |-> node]

\* ------------------------------------------------------------------------
\* Steps and transaction envelopes (flow.py)
\* ------------------------------------------------------------------------
\* What a step's callable does when it is invoked: it returns a transaction
\* envelope, returns a plain value, or raises.
DataValues == {VInt(d) : d \in 0..MaxData}

Raised == [t |-> "raise"]

None == [t |-> "none"]

RawResults ==
    {VEnv(s, d) : s \in BOOLEAN, d \in DataValues}
        \cup DataValues \cup {Raised}

\* _execute_step_internal: call the step; a result that is already an
\* envelope is returned as it is, any other result is wrapped into a success
\* envelope; an exception of the callable propagates.
ExecuteStepInternal(raw) ==
    CASE raw = Raised   -> Raised
      [] raw.t = "env"  -> raw
      [] OTHER          -> VEnv(TRUE, raw)

\* isinstance(outcome, dict) and outcome.get('success') is False
IsFailure(outcome) == outcome.t = "env" /\ outcome.success = FALSE

\* ------------------------------------------------------------------------
\* flow.retry
\* ------------------------------------------------------------------------
\* A loop that never ends early, for comparison with the test below.
RetryNeverStopsEarly(outcome) == FALSE

\* The test that ends the loop early (flow.py line 600).
RetryReturnsNow(outcome) == ~IsFailure(outcome)

RetryInit ==
    \E n \in 0..MaxAttempts :
        rt = [pc |-> "loop", attempts |-> n, attempt |-> 0,
              outcomes |-> <<>>, last_outcome |-> None,
              result |-> None]

\* One pass of the loop body: the step is invoked, and retry returns, goes
\* to sleep before the next attempt, or leaves the loop after the last one.
RetryAttempt ==
    /\ rt.pc = "loop"
    /\ rt.attempt < rt.attempts
    /\ \E raw \in RawResults :
         LET outcome == ExecuteStepInternal(raw)
             called  == [rt EXCEPT !.outcomes = Append(@, outcome)]
         IN  rt' = CASE outcome = Raised ->
                          [called EXCEPT !.pc = "raised"]
                     [] outcome # Raised /\ RetryReturnsNow(outcome) ->
                          [called EXCEPT !.pc = "done",
                                         !.last_outcome = outcome,
                                         !.result = outcome]
                     [] outcome # Raised /\ ~RetryReturnsNow(outcome)
                            /\ rt.attempt < rt.attempts - 1 ->
                          [called EXCEPT !.pc = "sleep",
                                         !.last_outcome = outcome]
                     [] OTHER ->
                          [called EXCEPT !.attempt = @ + 1,
                                         !.last_outcome = outcome]
    /\ UNCHANGED <<pp, sw, tm, ev, rc, bt, ct, el, te, cr, br, rn, dp>>

\* await asyncio.sleep(delay), then the next attempt.
RetrySleep ==
    /\ rt.pc = "sleep"
    /\ rt' = [rt EXCEPT !.pc = "loop", !.attempt = @ + 1]
    /\ UNCHANGED <<pp, sw, tm, ev, rc, bt, ct, el, te, cr, br, rn, dp>>

\* The loop is over: return last_outcome.
RetryExhausted ==
    /\ rt.pc = "loop"
    /\ rt.attempt >= rt.attempts
    /\ rt' = [rt EXCEPT !.pc = "done", !.result = rt.last_outcome]
    /\ UNCHANGED <<pp, sw, tm, ev, rc, bt, ct, el, te, cr, br, rn, dp>>

InitRetry == RetryInit /\ pp = Idle /\ sw = Idle /\ tm = Idle /\ ev = Idle
    /\ rc = Idle /\ bt = Idle /\ ct = Idle /\ el = Idle /\ te = Idle
    /\ cr = Idle
    /\ br = Idle
    /\ rn = Idle
    /\ dp = Idle

NextRetry == RetryAttempt \/ RetrySleep \/ RetryExhausted

SpecRetry == InitRetry /\ [][NextRetry]_vars

\* Index of the first invocation whose outcome is not a failure envelope
\* (0 when there is none).
FirstNonFailure(outcomes) ==
    IF \E i \in 1..Len(outcomes) : ~IsFailure(outcomes[i])
    THEN CHOOSE i \in 1..Len(outcomes) :
             /\ ~IsFailure(outcomes[i])
             /\ \A j \in 1..(i - 1) : IsFailure(outcomes[j])
    ELSE 0

\* C1: retry(step, N, delay) with N >= 1 invokes the step at most N times,
\* invokes it again only after an invocation returned a failure envelope,
\* and returns at once with the outcome of the first invocation that is not
\* a failure envelope (step failing twice then succeeding under N = 5: three
\* invocations, the third outcome returned); when every invocation failed
\* the last outcome is returned after exactly N invocations.
C1_RetryContract ==
    rt.pc # "idle" /\ rt.attempts >= 1 =>
        LET n == Len(rt.outcomes)
            k == FirstNonFailure(rt.outcomes)
        IN  /\ n <= rt.attempts
            /\ \A i \in 2..n : IsFailure(rt.outcomes[i - 1])
            /\ k # 0 => k = n /\ rt.pc \in {"done", "raised"}
            /\ rt.pc = "done" /\ k # 0 => rt.result = rt.outcomes[k]
            /\ rt.pc = "done" /\ k = 0 =>
                   n = rt.attempts /\ rt.result = rt.outcomes[n]
            /\ (rt.attempts = 5 /\ rt.pc = "done" /\ n = 3
                  /\ IsFailure(rt.outcomes[1]) /\ IsFailure(rt.outcomes[2])
                  /\ ~IsFailure(rt.outcomes[3]))
                 => rt.result = rt.outcomes[3]

\* A run of retry(step, 5, 0) in which the step failed twice and then
\* succeeded: retry has returned after three invocations.
C1_Witness ==
    /\ rt.pc = "done"
    /\ rt.attempts = 5
    /\ Len(rt.outcomes) = 3
    /\ IsFailure(rt.outcomes[1]) /\ IsFailure(rt.outcomes[2])
    /\ rt.outcomes[3].success
    /\ rt.result = rt.outcomes[3]

\* C16: an exception raised by a step is not propagated to the caller of
\* the combinator, it is captured into a failure envelope; stated for
\* retry: when an attempt's step raised, retry has not been left by the
\* exception, it makes its next attempt, and when it returns after a last
\* attempt that raised it returns a failure envelope.
C16_StepExceptionsCaptured ==
    (\E i \in 1..Len(rt.outcomes) : rt.outcomes[i] = Raised) =>
        /\ rt.pc \in {"loop", "sleep", "done"}
        /\ (rt.pc = "done" /\ rt.outcomes[Len(rt.outcomes)] = Raised) =>
               (IsFailure(rt.result) /\ Len(rt.outcomes) = rt.attempts)

\* ------------------------------------------------------------------------
\* flow.pipe
\* ------------------------------------------------------------------------
\* What pipe hands to the next stage and records in context['outputs']:
\* the data of a success envelope, otherwise the outcome itself.
DataToPass(outcome) ==
    IF outcome.t = "env" /\ outcome.success = TRUE
    THEN outcome.data
    ELSE outcome

PipeInit ==
    \E n \in 0..MaxStages :
        pp = [pc |-> "loop", stages |-> n, stage_index |-> 0,
              outcomes |-> <<>>, outputs |-> <<>>,
              final_output |-> None]

\* One pass of `for stage_tuple in stages`: the stage is invoked through
\* _execute_step_internal and its output appended to context['outputs'].
PipeStage ==
    /\ pp.pc = "loop"
    /\ pp.stage_index < pp.stages
    /\ \E raw \in RawResults :
         LET outcome == ExecuteStepInternal(raw)
             called  == [pp EXCEPT !.stage_index = @ + 1,
                                   !.outcomes = Append(@, outcome)]
         IN  pp' = IF outcome = Raised
                   THEN [called EXCEPT !.pc = "raised"]
                   ELSE [called EXCEPT
                            !.final_output = DataToPass(outcome),
                            !.outputs = Append(@, DataToPass(outcome))]
    /\ UNCHANGED <<rt, sw, tm, ev, rc, bt, ct, el, te, cr, br, rn, dp>>

\* The loop is over: return final_output.
PipeReturn ==
    /\ pp.pc = "loop"
    /\ pp.stage_index >= pp.stages
    /\ pp' = [pp EXCEPT !.pc = "done"]
    /\ UNCHANGED <<rt, sw, tm, ev, rc, bt, ct, el, te, cr, br, rn, dp>>

InitPipe == PipeInit /\ rt = Idle /\ sw = Idle /\ tm = Idle /\ ev = Idle
    /\ rc = Idle /\ bt = Idle /\ ct = Idle /\ el = Idle /\ te = Idle
    /\ cr = Idle
    /\ br = Idle
    /\ rn = Idle
    /\ dp = Idle

NextPipe == PipeStage \/ PipeReturn

SpecPipe == InitPipe /\ [][NextPipe]_vars

\* C2: once a stage of pipe(s1..sN) has returned a failure envelope, no
\* later stage is invoked and the pipe's result is that failure.
C2_PipeStopsOnFailure ==
    pp.pc # "idle" =>
        /\ \A i \in 1..Len(pp.outcomes) :
               IsFailure(pp.outcomes[i]) => i = Len(pp.outcomes)
        /\ (pp.pc = "done" /\ \E i \in 1..Len(pp.outcomes) :
                                   IsFailure(pp.outcomes[i]))
              => IsFailure(pp.final_output)

\* ------------------------------------------------------------------------
\* flow.branch as a stage of flow.pipe
\* ------------------------------------------------------------------------
\* What the stage before branch returns: the results of RawResults, None,
\* and a success envelope whose data is a success envelope.
BranchFirstResults ==
    RawResults \cup {VNull} \cup {VEnv(TRUE, VEnv(TRUE, d)) : d \in DataValues}

\* What the steps on_success and on_failure return.
BranchStepResults == {VStr("done"), VEnv(FALSE, VNull), Raised}

\* isinstance(outcome, dict) and outcome.get('success') is True
TakesSuccessBranch(outcome) == outcome.t = "env" /\ outcome.success = TRUE

\* pipe(step(first), step(branch, on_success, on_failure)) when has_first,
\* pipe(step(branch, on_success, on_failure)) otherwise.
BranchInit ==
    \E has_first \in BOOLEAN, first \in BranchFirstResults,
       s \in BranchStepResults, f \in BranchStepResults :
        /\ ~has_first => first = VNull
        /\ br = [pc |-> IF has_first THEN "first" ELSE "branch",
                 has_first |-> has_first, first |-> first,
                 on_success |-> s, on_failure |-> f,
                 first_outcome |-> None, outputs |-> <<>>, ran |-> <<>>,
                 final_output |-> None, error |-> ""]

\* pipe's pass over the stage before branch.
BranchFirstStage ==
    /\ br.pc = "first"
    /\ LET outcome == ExecuteStepInternal(br.first)
       IN  br' = IF outcome = Raised
                 THEN [br EXCEPT !.pc = "raised", !.error = "Exception"]
                 ELSE [br EXCEPT
                         !.pc = "branch",
                         !.first_outcome = outcome,
                         !.final_output = DataToPass(outcome),
                         !.outputs = Append(@, DataToPass(outcome))]
    /\ UNCHANGED <<rt, pp, sw, tm, ev, rc, bt, ct, el, te, cr, rn, dp>>

\* pipe's pass over branch: branch reads the last element of
\* context['outputs'] (an IndexError when there is none), runs one of its
\* two steps through _execute_step_internal and returns its outcome, which
\* pipe appends to the outputs.
BranchStage ==
    /\ br.pc = "branch"
    /\ IF br.outputs = <<>>
       THEN br' = [br EXCEPT !.pc = "raised", !.error = "IndexError"]
       ELSE LET outcome == br.outputs[Len(br.outputs)]
                chosen == IF TakesSuccessBranch(outcome)
                          THEN "on_success" ELSE "on_failure"
                result == ExecuteStepInternal(br[chosen])
                called == [br EXCEPT !.ran = Append(@, chosen)]
            IN  br' = IF result = Raised
                      THEN [called EXCEPT !.pc = "raised",
                                          !.error = "Exception"]
                      ELSE [called EXCEPT
                              !.pc = "loop_end",
                              !.final_output = DataToPass(result),
                              !.outputs = Append(@, DataToPass(result))]
    /\ UNCHANGED <<rt, pp, sw, tm, ev, rc, bt, ct, el, te, cr, rn, dp>>

\* The loop of pipe is over: return final_output.
BranchPipeReturns ==
    /\ br.pc = "loop_end"
    /\ br' = [br EXCEPT !.pc = "done"]
    /\ UNCHANGED <<rt, pp, sw, tm, ev, rc, bt, ct, el, te, cr, rn, dp>>

InitBranch == BranchInit /\ rt = Idle /\ pp = Idle /\ sw = Idle
    /\ tm = Idle /\ ev = Idle /\ rc = Idle /\ bt = Idle /\ ct = Idle
    /\ el = Idle /\ te = Idle /\ cr = Idle
    /\ rn = Idle
    /\ dp = Idle

NextBranch == BranchFirstStage \/ BranchStage \/ BranchPipeReturns

SpecBranch == InitBranch /\ [][NextBranch]_vars

\* C28: after a stage of the pipe, branch runs on_success when that stage
\* succeeded and on_failure when it failed, and nothing else.
C28_BranchFollowsPreviousStage ==
    (br.pc \in {"loop_end", "done"} /\ br.has_first) =>
        br.ran = IF IsFailure(br.first_outcome)
                 THEN <<"on_failure">> ELSE <<"on_success">>

\* ------------------------------------------------------------------------
\* flow.switch and flow.guard
\* ------------------------------------------------------------------------
\* What mistql.query(condition, {'@': context}) does for a case's condition:
\* it yields a truthy result, a falsy result, or raises.  The condition
\* `true` is the language's literal and is always truthy.
GuardKinds == {"truthy", "falsy", "error"}

Conditions ==
    [text : {"cond"}, query : GuardKinds]
        \cup {[text |-> "true", query |-> "truthy"]}

\* A guard that passes whatever the query gives, for comparison.
GuardAlwaysPasses(condition) == TRUE

\* guard(condition, context)["success"]: the query's result is truthy; an
\* exception of the query is caught and gives a failure.
GuardSuccess(condition) == condition.query = "truthy"

RECURSIVE SeqsUpTo(_, _)
SeqsUpTo(S, n) ==
    IF n = 0 THEN {<<>>}
    ELSE LET shorter == SeqsUpTo(S, n - 1)
         IN  shorter \cup {Append(q, x) : q \in shorter, x \in S}

SwitchInit ==
    \E cs \in SeqsUpTo(Conditions, MaxCases) :
        sw = [pc |-> "loop", case_list |-> cs, index |-> 1,
              guards |-> <<>>, executed |-> <<>>,
              result |-> None]

\* One pass of `for condition, action_step in case_list`: the guard is
\* evaluated and, when it succeeds, the case's step is executed and its
\* outcome returned.
SwitchCase ==
    /\ sw.pc = "loop"
    /\ sw.index <= Len(sw.case_list)
    /\ LET guarded == [sw EXCEPT !.guards = Append(@, sw.index)]
       IN  IF GuardSuccess(sw.case_list[sw.index])
           THEN \E raw \in RawResults :
                  LET outcome == ExecuteStepInternal(raw)
                      ran     == [guarded EXCEPT
                                     !.executed = Append(@, sw.index)]
                  IN  sw' = IF outcome = Raised
                            THEN [ran EXCEPT !.pc = "raised"]
                            ELSE [ran EXCEPT !.pc = "done",
                                             !.result = outcome]
           ELSE sw' = [guarded EXCEPT !.index = @ + 1]
    /\ UNCHANGED <<rt, pp, tm, ev, rc, bt, ct, el, te, cr, br, rn, dp>>

\* No case was taken: the function ends without a return statement.
SwitchFallsThrough ==
    /\ sw.pc = "loop"
    /\ sw.index > Len(sw.case_list)
    /\ sw' = [sw EXCEPT !.pc = "done", !.result = None]
    /\ UNCHANGED <<rt, pp, tm, ev, rc, bt, ct, el, te, cr, br, rn, dp>>

InitSwitch == SwitchInit /\ rt = Idle /\ pp = Idle /\ tm = Idle /\ ev = Idle
    /\ rc = Idle /\ bt = Idle /\ ct = Idle /\ el = Idle /\ te = Idle
    /\ cr = Idle
    /\ br = Idle
    /\ rn = Idle
    /\ dp = Idle

NextSwitch == SwitchCase \/ SwitchFallsThrough

SpecSwitch == InitSwitch /\ [][NextSwitch]_vars

Truthy(cs) == {i \in 1..Len(cs) : cs[i].query = "truthy"}

\* C3 as stated: switch executes exactly one step.
C3_SwitchExactlyOneStep ==
    (sw.pc \in {"done", "raised"} /\ Len(sw.case_list) >= 1)
        => Len(sw.executed) = 1

\* C3 as amended: the guards are evaluated in source order; at most one
\* step is executed, the step of the first case whose guard is truthy, and
\* exactly one when some guard is truthy; when no guard is truthy no step is
\* executed.  The `true` default is executed iff no case before it had a
\* truthy guard, and no step of a later case is executed.
C3_SwitchFirstTruthy ==
    sw.pc # "idle" =>
        /\ \A i \in 1..Len(sw.guards) : sw.guards[i] = i
        /\ Len(sw.executed) <= 1
        /\ \A e \in 1..Len(sw.executed) :
               /\ sw.executed[e] \in Truthy(sw.case_list)
               /\ \A j \in Truthy(sw.case_list) : sw.executed[e] <= j
               /\ Len(sw.guards) = sw.executed[e]
        /\ sw.pc \in {"done", "raised"} =>
               /\ (Truthy(sw.case_list) # {}) = (Len(sw.executed) = 1)
               /\ \A d \in 1..Len(sw.case_list) :
                      sw.case_list[d].text = "true" =>
                          ((sw.executed = <<d>>) =
                           (\A j \in 1..(d - 1) : j \notin Truthy(sw.case_list)))

\* A finished switch that took its `true` default after a falsy guard.
C3_Witness ==
    /\ sw.pc = "done"
    /\ Len(sw.case_list) = 3
    /\ sw.case_list[2].text = "true"
    /\ sw.executed = <<2>>
    /\ sw.guards = <<1, 2>>

\* C17: every combinator invocation that returns, returns a transaction
\* envelope; stated for switch, the case in which no guard is truthy
\* included.
C17_SwitchReturnsEnvelope ==
    sw.pc = "done" => (sw.result.t = "env" /\ sw.result.success \in BOOLEAN)

\* ------------------------------------------------------------------------
\* flow.timeout
\* ------------------------------------------------------------------------
TimeoutEnvelope == [t |-> "env", success |-> FALSE, type |-> "TimeoutError"]

ExecutionErrorEnvelope ==
    [t |-> "env", success |-> FALSE, type |-> "ExecutionError"]

\* A wait that leaves the pending task alone, for comparison.
LeaveTaskRunning(task) == task

\* What asyncio.wait_for does with a task still pending at the deadline.
CancelTask(task) == "cancelled"

TimeoutInit ==
    \E s \in 0..MaxSeconds :
        tm = [pc |-> "start", max_seconds |-> s, elapsed |-> 0,
              task |-> "none", task_result |-> None,
              result |-> None]

\* task = asyncio.create_task(_execute_step_internal(...)); wait_for(task).
TimeoutCreateTask ==
    /\ tm.pc = "start"
    /\ tm' = [tm EXCEPT !.pc = "waiting", !.task = "running"]
    /\ UNCHANGED <<rt, pp, sw, ev, rc, bt, ct, el, te, cr, br, rn, dp>>

\* Time passes while the step runs.
TimeoutTick ==
    /\ tm.pc = "waiting"
    /\ tm.task = "running"
    /\ tm.elapsed < tm.max_seconds
    /\ tm' = [tm EXCEPT !.elapsed = @ + 1]
    /\ UNCHANGED <<rt, pp, sw, ev, rc, bt, ct, el, te, cr, br, rn, dp>>

\* The step completes while timeout waits for it (or, were it left running,
\* after timeout has returned): the task holds its outcome or its exception.
TimeoutStepCompletes ==
    /\ tm.task = "running"
    /\ tm.pc \in {"waiting", "done"}
    /\ \E raw \in RawResults \cup {[t |-> "raise_timeout"]} :
         tm' = [tm EXCEPT
                  !.task = "finished",
                  !.task_result = IF raw.t = "raise_timeout" THEN raw
                                  ELSE ExecuteStepInternal(raw)]
    /\ UNCHANGED <<rt, pp, sw, ev, rc, bt, ct, el, te, cr, br, rn, dp>>

\* wait_for returns the finished task's outcome; an exception of the step
\* is caught by timeout's handlers.
TimeoutStepReturned ==
    /\ tm.pc = "waiting"
    /\ tm.task = "finished"
    /\ tm' = [tm EXCEPT
                !.pc = "done",
                !.result = CASE tm.task_result.t = "raise_timeout" ->
                                    TimeoutEnvelope
                             [] tm.task_result.t = "raise" ->
                                    ExecutionErrorEnvelope
                             [] OTHER -> tm.task_result]
    /\ UNCHANGED <<rt, pp, sw, ev, rc, bt, ct, el, te, cr, br, rn, dp>>

\* The deadline passes with the task still pending: wait_for cancels the
\* task and raises TimeoutError, which timeout turns into an envelope.
TimeoutExpires ==
    /\ tm.pc = "waiting"
    /\ tm.task = "running"
    /\ tm.elapsed >= tm.max_seconds
    /\ tm' = [tm EXCEPT !.pc = "done",
                        !.task = CancelTask(tm.task),
                        !.result = TimeoutEnvelope]
    /\ UNCHANGED <<rt, pp, sw, ev, rc, bt, ct, el, te, cr, br, rn, dp>>

InitTimeout == TimeoutInit /\ rt = Idle /\ pp = Idle /\ sw = Idle /\ ev = Idle
    /\ rc = Idle /\ bt = Idle /\ ct = Idle /\ el = Idle /\ te = Idle
    /\ cr = Idle
    /\ br = Idle
    /\ rn = Idle
    /\ dp = Idle

NextTimeout ==
    \/ TimeoutCreateTask
    \/ TimeoutTick
    \/ TimeoutStepCompletes
    \/ TimeoutStepReturned
    \/ TimeoutExpires

SpecTimeout == InitTimeout /\ [][NextTimeout]_vars

RaceWinnerErrorEnvelope ==
    [t |-> "env", success |-> FALSE, type |-> "RaceWinnerError"]

\* A return that leaves the pending tasks alone, for comparison.
LeavePending(tasks) == tasks

\* finally: for task in pending: task.cancel()
CancelPending(tasks) ==
    [i \in DOMAIN tasks |->
        IF tasks[i] = "pending" THEN "cancelled" ELSE tasks[i]]

\* winner_task.result(), an exception of the winner being turned into an
\* envelope.
WinnerResult(outcome) ==
    IF outcome = Raised THEN RaceWinnerErrorEnvelope ELSE outcome

RaceInit ==
    \E n \in 0..MaxSteps :
        rc = [pc |-> "start", n |-> n, tasks |-> <<>>, outcomes |-> <<>>,
              winner |-> 0, done |-> {}, result |-> None, error |-> ""]

\* if not steps_to_run: return None
RaceNoSteps ==
    /\ rc.pc = "start"
    /\ rc.n = 0
    /\ rc' = [rc EXCEPT !.pc = "returned"]
    /\ UNCHANGED <<rt, pp, sw, tm, ev, bt, ct, el, te, cr, br, rn, dp>>

\* One task per step, then asyncio.wait(tasks, FIRST_COMPLETED).
RaceCreateTasks ==
    /\ rc.pc = "start"
    /\ rc.n >= 1
    /\ rc' = [rc EXCEPT !.pc = "waiting",
                        !.tasks = [i \in 1..rc.n |-> "pending"],
                        !.outcomes = [i \in 1..rc.n |-> None]]
    /\ UNCHANGED <<rt, pp, sw, tm, ev, bt, ct, el, te, cr, br, rn, dp>>

\* A pending task runs its step to the end: while race waits (several tasks
\* may finish before race resumes) and, when it was left pending, after
\* race is over.
RaceStepCompletes ==
    /\ rc.pc \in {"waiting", "returned", "raised"}
    /\ \E i \in DOMAIN rc.tasks :
         /\ rc.tasks[i] = "pending"
         /\ \E raw \in RawResults :
              rc' = [rc EXCEPT !.tasks[i] = "done",
                               !.outcomes[i] = ExecuteStepInternal(raw)]
    /\ UNCHANGED <<rt, pp, sw, tm, ev, bt, ct, el, te, cr, br, rn, dp>>

\* asyncio.wait returns (done, pending) once a task is done; done.pop()
\* takes any one of the done tasks; the finally block cancels the pending.
RaceReturns ==
    /\ rc.pc = "waiting"
    /\ \E w \in {i \in DOMAIN rc.tasks : rc.tasks[i] = "done"} :
         rc' = [rc EXCEPT
                  !.pc = "returned",
                  !.winner = w,
                  !.done = {i \in DOMAIN rc.tasks : rc.tasks[i] = "done"},
                  !.result = WinnerResult(rc.outcomes[w]),
                  !.tasks = CancelPending(rc.tasks)]
    /\ UNCHANGED <<rt, pp, sw, tm, ev, bt, ct, el, te, cr, br, rn, dp>>

\* The task that runs race is cancelled (by an enclosing timeout or race,
\* or at shutdown) while it awaits asyncio.wait: CancelledError is raised
\* at the await before `done, pending` is assigned, asyncio.wait leaves the
\* tasks it waited for alone, and the finally block fails on the unbound
\* name `pending`.
RaceCancelled ==
    /\ rc.pc = "waiting"
    /\ rc' = [rc EXCEPT !.pc = "raised", !.error = "UnboundLocalError"]
    /\ UNCHANGED <<rt, pp, sw, tm, ev, bt, ct, el, te, cr, br, rn, dp>>

InitRace == RaceInit /\ rt = Idle /\ pp = Idle /\ sw = Idle /\ tm = Idle
    /\ ev = Idle /\ bt = Idle /\ ct = Idle /\ el = Idle /\ te = Idle
    /\ cr = Idle
    /\ br = Idle
    /\ rn = Idle
    /\ dp = Idle

NextRace ==
    \/ RaceNoSteps
    \/ RaceCreateTasks
    \/ RaceStepCompletes
    \/ RaceReturns
    \/ RaceCancelled

SpecRace == InitRace /\ [][NextRace]_vars

C12_CancellationPropagates ==
    rc.pc = "raised" => \A i \in 1..rc.n : rc.tasks[i] # "pending"

\* ------------------------------------------------------------------------
\* flow.batch
\* ------------------------------------------------------------------------
\* What the i-th step of a batch does: it returns a success envelope or a
\* plain value carrying its own number, returns a failure envelope with an
\* empty or a non-empty error list, or raises.
BatchStepResults(i) ==
    {[t |-> "env", success |-> TRUE, data |-> VInt(i), errors |-> <<>>],
     VInt(i),
     [t |-> "env", success |-> FALSE, data |-> VNull, errors |-> <<>>],
     [t |-> "env", success |-> FALSE, data |-> VNull, errors |-> <<VInt(i)>>],
     Raised}

\* The results in the order the tasks completed, for comparison.
ResultsInCompletionOrder(outcomes, completed) ==
    [k \in 1..Len(completed) |-> outcomes[completed[k]]]

\* asyncio.gather(*tasks, return_exceptions=True): the results (or the
\* exceptions) in the order of the tasks, whatever the completion order.
GatherResults(outcomes, completed) == outcomes

\* isinstance(r, Exception), or a dict whose 'success' is False
IsBatchFailure(r) == r = Raised \/ (r.t = "env" /\ r.success = FALSE)

\* The loop over raw_results: successes.append(r.get('data', r))
RECURSIVE BatchSuccesses(_)
BatchSuccesses(raw_results) ==
    IF raw_results = <<>> THEN <<>>
    ELSE LET r == Head(raw_results)
         IN  (IF IsBatchFailure(r) THEN <<>>
              ELSE IF r.t = "env" THEN <<r.data>> ELSE <<r>>)
                 \o BatchSuccesses(Tail(raw_results))

\* The loop over raw_results: an exception appends one record to failures,
\* a failure envelope extends failures by its own error list.
RECURSIVE BatchFailures(_)
BatchFailures(raw_results) ==
    IF raw_results = <<>> THEN <<>>
    ELSE LET r == Head(raw_results)
         IN  (IF r = Raised THEN <<[type |-> "Exception"]>>
              ELSE IF IsBatchFailure(r) THEN r.errors
              ELSE <<>>)
                 \o BatchFailures(Tail(raw_results))

BatchEnvelope(raw_results) ==
    [t |-> "env",
     success |-> Len(BatchFailures(raw_results)) = 0,
     data |-> BatchSuccesses(raw_results),
     errors |-> BatchFailures(raw_results)]

BatchInit ==
    \E n \in 0..MaxSteps :
        bt = [pc |-> "start", n |-> n, tasks |-> <<>>, outcomes |-> <<>>,
              completed |-> <<>>, result |-> None]

\* if not steps_to_run: return {"success": True, "data": [], "errors": None}
BatchNoSteps ==
    /\ bt.pc = "start"
    /\ bt.n = 0
    /\ bt' = [bt EXCEPT !.pc = "returned",
                        !.result = [t |-> "env", success |-> TRUE,
                                    data |-> <<>>, errors |-> None]]
    /\ UNCHANGED <<rt, pp, sw, tm, ev, rc, ct, el, te, cr, br, rn, dp>>

\* One task per step, then asyncio.gather.
BatchCreateTasks ==
    /\ bt.pc = "start"
    /\ bt.n >= 1
    /\ bt' = [bt EXCEPT !.pc = "gathering",
                        !.tasks = [i \in 1..bt.n |-> "pending"],
                        !.outcomes = [i \in 1..bt.n |-> None]]
    /\ UNCHANGED <<rt, pp, sw, tm, ev, rc, ct, el, te, cr, br, rn, dp>>

\* Any pending task completes next: the steps run concurrently.
BatchStepCompletes ==
    /\ bt.pc = "gathering"
    /\ \E i \in DOMAIN bt.tasks :
         /\ bt.tasks[i] = "pending"
         /\ \E raw \in BatchStepResults(i) :
              bt' = [bt EXCEPT !.tasks[i] = "done",
                               !.outcomes[i] = ExecuteStepInternal(raw),
                               !.completed = Append(@, i)]
    /\ UNCHANGED <<rt, pp, sw, tm, ev, rc, ct, el, te, cr, br, rn, dp>>

\* gather returns when every task is done; the results are aggregated.
BatchReturns ==
    /\ bt.pc = "gathering"
    /\ \A i \in DOMAIN bt.tasks : bt.tasks[i] = "done"
    /\ bt' = [bt EXCEPT
                !.pc = "returned",
                !.result = BatchEnvelope(
                               GatherResults(bt.outcomes, bt.completed))]
    /\ UNCHANGED <<rt, pp, sw, tm, ev, rc, ct, el, te, cr, br, rn, dp>>

InitBatch == BatchInit /\ rt = Idle /\ pp = Idle /\ sw = Idle /\ tm = Idle
    /\ ev = Idle /\ rc = Idle /\ ct = Idle /\ el = Idle /\ te = Idle
    /\ cr = Idle
    /\ br = Idle
    /\ rn = Idle
    /\ dp = Idle

NextBatch ==
    \/ BatchNoSteps
    \/ BatchCreateTasks
    \/ BatchStepCompletes
    \/ BatchReturns

SpecBatch == InitBatch /\ [][NextBatch]_vars

\* A step failed: it raised or returned an envelope with success = false.
StepFailed(outcome) ==
    outcome = Raised \/ (outcome.t = "env" /\ outcome.success = FALSE)

\* C13: batch returns success = true iff no step failed, a step failing
\* when it raises or returns a failure envelope, whatever the envelope's
\* error list contains.
C13_BatchSuccessIffNoFailure ==
    bt.pc = "returned" =>
        (bt.result.success <=>
            \A i \in 1..bt.n : ~StepFailed(bt.outcomes[i]))

\* C14: whatever the order in which the steps completed, the aggregated
\* data lists the results of the steps in the order the steps were passed:
\* it holds the result of every step that did not fail, and the result of
\* step i stands before the result of step j whenever i < j.
C14_BatchDataInInputOrder ==
    bt.pc = "returned" =>
        /\ {bt.result.data[p].n : p \in DOMAIN bt.result.data}
              = {i \in 1..bt.n : ~StepFailed(bt.outcomes[i])}
        /\ \A p, q \in DOMAIN bt.result.data :
              p < q => bt.result.data[p].n < bt.result.data[q].n

\* Three steps that completed in the order 3, 1, 2 and all succeeded.
C14_Witness ==
    /\ bt.pc = "returned"
    /\ bt.completed = <<3, 1, 2>>
    /\ bt.result.data = <<VInt(1), VInt(2), VInt(3)>>

\* ------------------------------------------------------------------------
\* flow.catch
\* ------------------------------------------------------------------------
\* What a step of catch does: a success envelope, a plain value, a failure
\* envelope whose error list names the step or is empty, or an exception.
CatchStepResults(who) ==
    {[t |-> "env", success |-> TRUE, data |-> d, errors |-> <<>>] :
        d \in DataValues}
      \cup DataValues
      \cup {[t |-> "env", success |-> FALSE, data |-> VNull,
             errors |-> <<who>>],
            [t |-> "env", success |-> FALSE, data |-> VNull,
             errors |-> <<>>],
            Raised}

\* The context the caller hands to catch, and the default value of the
\* context parameter of _execute_step_internal.
CallerContexts == {[k \in {"x"} |-> VInt(d)] : d \in 0..MaxData}

DefaultContext == [k \in {} |-> VNull]

\* try: outcome = await _execute_step_internal(try_step, context)
\* except Exception as e: outcome = {'success': False, 'errors': [str(e)]}
TryOutcome(raw) ==
    IF raw = Raised
    THEN [t |-> "env", success |-> FALSE, data |-> VNull,
          errors |-> <<"exception">>]
    ELSE ExecuteStepInternal(raw)

CatchInit ==
    \E context \in CallerContexts :
        ct = [pc |-> "start", context |-> context, outcome |-> None,
              fallback_ran |-> FALSE, fallback_context |-> None,
              fallback_outcome |-> None, result |-> None]

\* The try step is run; its outcome is returned unless it is a failure.
CatchTry ==
    /\ ct.pc = "start"
    /\ \E raw \in CatchStepResults("try") :
         ct' = [ct EXCEPT
                  !.outcome = TryOutcome(raw),
                  !.pc = IF IsFailure(TryOutcome(raw))
                         THEN "fallback" ELSE "returned",
                  !.result = IF IsFailure(TryOutcome(raw))
                             THEN None ELSE TryOutcome(raw)]
    /\ UNCHANGED <<rt, pp, sw, tm, ev, rc, bt, el, te, cr, br, rn, dp>>

\* return await _execute_step_internal(catch_step): the fallback is run
\* with the default context and its outcome is what catch returns; an
\* exception of the fallback leaves catch.
CatchFallback ==
    /\ ct.pc = "fallback"
    /\ \E raw \in CatchStepResults("fallback") :
         ct' = [ct EXCEPT
                  !.fallback_ran = TRUE,
                  !.fallback_context = DefaultContext,
                  !.fallback_outcome = ExecuteStepInternal(raw),
                  !.pc = IF raw = Raised THEN "raised" ELSE "returned",
                  !.result = IF raw = Raised THEN None
                             ELSE ExecuteStepInternal(raw)]
    /\ UNCHANGED <<rt, pp, sw, tm, ev, rc, bt, el, te, cr, br, rn, dp>>

InitCatch == CatchInit /\ rt = Idle /\ pp = Idle /\ sw = Idle /\ tm = Idle
    /\ ev = Idle /\ rc = Idle /\ bt = Idle /\ el = Idle /\ te = Idle
    /\ cr = Idle
    /\ br = Idle
    /\ rn = Idle
    /\ dp = Idle

NextCatch == CatchTry \/ CatchFallback

SpecCatch == InitCatch /\ [][NextCatch]_vars

\* The elements of an error list.
ErrorsOf(envelope) == {envelope.errors[k] : k \in DOMAIN envelope.errors}

\* C15: when the try step fails, the fallback is run with the try step's
\* errors available in its context and the envelope catch returns carries
\* the union of the try step's errors and the fallback's errors; when the
\* try step succeeds, its outcome is returned and the fallback is not run.
C15_CatchContract ==
    ct.pc = "returned" =>
        IF IsFailure(ct.outcome)
        THEN /\ ct.fallback_ran
             /\ "errors" \in DOMAIN ct.fallback_context
             /\ ct.fallback_context["errors"] = ct.outcome.errors
             /\ ErrorsOf(ct.result)
                   = ErrorsOf(ct.outcome) \cup ErrorsOf(ct.fallback_outcome)
        ELSE /\ ~ct.fallback_ran
             /\ ct.result = ct.outcome

\* ------------------------------------------------------------------------
\* language.py: the syntax tree built by ConfigTransformer
\* ------------------------------------------------------------------------
\* A literal of the source (number, string, true, false) or any other
\* object that visit returns unchanged.
NLit(v) == [k |-> "lit", v |-> v]
\* An identifier: a CNAME token, or ('VAR', 'a.b.c') for a dotted name, held
\* as its first segment and the segments after it.
NVar(name) == [k |-> "var", name |-> name, path |-> <<>>]
NDotted(name, path) == [k |-> "var", name |-> name, path |-> path]
\* ('CALL', name, pos_args, kw_args); the programs of the model pass no
\* keyword arguments.
NCall(name, args) == [k |-> "call", name |-> name, args |-> args]
\* ('OP_ADD' | 'OP_AND' | 'OP_OR', left, right)
NOp(tag, l, r) == [k |-> "op", tag |-> tag, l |-> l, r |-> r]
\* ('EXPRESSION', [seed, stage, ...]): a `|>` chain.
NExpr(ops) == [k |-> "expr", ops |-> ops]
\* A record { item; ... }: the dict of its items in source order.
NDict(entries) == [k |-> "dict", entries |-> entries]
\* [item, ...]: a list.
NList(items) == [k |-> "list", items |-> items]
\* (params, { body }, returns): a user-defined function.
NFnDef(params, body, returns) ==
    [k |-> "fndef", params |-> params, body |-> body, returns |-> returns]

\* The key of a record item: ('TYPED', type, name) for a declaration
\* `type:name := e`, the plain string for a mapping `name: e`.
TypedKey(typ, name) == [typ |-> typ, name |-> name]
PlainKey(name) == [typ |-> "", name |-> name]
Entry(key, val) == [key |-> key, val |-> val]

\* NodeTypeChecker.is_typed on a key.
IsTyped(key) == key.typ # ""

\* NodeTypeChecker.is_function_def on a value: a 3-tuple whose second item
\* is a dict.
IsFunctionDef(x) == x.t = "fn"

\* NodeTypeChecker.is_resolvable: a token, a VAR tuple or a TYPED tuple; a
\* plain str is not.
IsResolvable(node) == "k" \in DOMAIN node /\ node.k \in {"var", "typed"}

\* ------------------------------------------------------------------------
\* language.py: Python's operators on the values
\* ------------------------------------------------------------------------
\* bool(v)
PyTruthy(v) ==
    CASE v.t = "null"  -> FALSE
      [] v.t = "bool"  -> v.b
      [] v.t = "int"   -> v.n # 0
      [] v.t = "float" -> v.h # 0
      [] v.t = "str"   -> v.s # ""
      [] v.t \in {"list", "tuple"} -> v.items # <<>>
      [] v.t = "dict"  -> DOMAIN v.f # {}
      [] OTHER         -> TRUE

\* The number a value stands for in arithmetic, in halves; a bool is an int.
IsNumber(v) == v.t \in {"int", "float", "bool"}

Halves(v) ==
    CASE v.t = "int"   -> 2 * v.n
      [] v.t = "float" -> v.h
      [] v.t = "bool"  -> IF v.b THEN 2 ELSE 0

OpTags == {"OP_ADD", "OP_AND", "OP_OR"}

\* DSLVisitor.OPS[tag](a, b): operator.add, `a and b`, `a or b`.  The
\* result is the value, or Raised for a TypeError.
ApplyOp(tag, a, b) ==
    CASE tag = "OP_AND" -> IF PyTruthy(a) THEN b ELSE a
      [] tag = "OP_OR"  -> IF PyTruthy(a) THEN a ELSE b
      [] tag = "OP_ADD" ->
            IF IsNumber(a) /\ IsNumber(b)
            THEN IF a.t = "float" \/ b.t = "float"
                 THEN VFloat(Halves(a) + Halves(b))
                 ELSE VInt((Halves(a) + Halves(b)) \div 2)
            ELSE IF a.t = "str" /\ b.t = "str"
                 THEN VStr(a.s \o b.s)
                 ELSE Raised

\* ------------------------------------------------------------------------
\* language.py: TypeValidator
\* ------------------------------------------------------------------------
\* TYPE_MAP: the Python class behind a type name, "" for a name it lacks.
TypeMap(type_name) ==
    CASE type_name \in {"int", "integer", "i8", "i16", "i32", "i64", "i128"}
                -> "int"
      [] type_name \in {"str", "string"} -> "str"
      [] type_name = "dict" -> "dict"
      [] type_name \in {"list", "array"} -> "list"
      [] type_name \in {"float", "f8", "f16", "f32", "f64", "f128"}
                -> "float"
      [] type_name = "tuple" -> "tuple"
      [] type_name \in {"bool", "boolean"} -> "bool"
      [] type_name = "any" -> "object"
      [] type_name = "number" -> "number"
      [] OTHER -> ""

\* isinstance(value, type_class): bool is a subclass of int, an envelope is
\* a dict, a function definition is a tuple.
CheckInstance(value, type_class) ==
    CASE type_class = "int"    -> value.t \in {"int", "bool"}
      [] type_class = "str"    -> value.t = "str"
      [] type_class = "dict"   -> value.t \in {"dict", "env"}
      [] type_class = "list"   -> value.t = "list"
      [] type_class = "float"  -> value.t = "float"
      [] type_class = "tuple"  -> value.t \in {"tuple", "fn", "ast"}
      [] type_class = "bool"   -> value.t = "bool"
      [] type_class = "number" -> value.t \in {"int", "bool", "float"}

\* isinstance(value, float) and value.is_integer()
IsWholeNumber(value) == value.t = "float" /\ value.h % 2 = 0

\* TypeValidator.validate: TRUE when it returns, FALSE when it raises
\* DSLTypeError.  The value is never converted.
Validate(value, type_name) ==
    LET type_class == TypeMap(type_name)
    IN  \/ type_class = ""
        \/ type_class = "object"
        \/ (type_class = "int" /\ IsWholeNumber(value))
        \/ CheckInstance(value, type_class)

\* ------------------------------------------------------------------------
\* language.py: DSLVisitor, its state and its helpers
\* ------------------------------------------------------------------------
\* Config.MAX_RECURSION_DEPTH
MAX_RECURSION_DEPTH == 1000

\* The fields of the visitor that evaluation reads and writes: root_data,
\* _recursion_depth, and (for observation) the calls made to host functions.
NewVisitor(root_data) == [root_data |-> root_data, depth |-> 0, calls |-> <<>>]

\* The outcome of a coroutine of the visitor: the value it returns or the
\* exception it raises, and the visitor's state afterwards.
Ok(v, self) == [ok |-> TRUE, val |-> v, err |-> "", self |-> self]
Fail(err, self) == [ok |-> FALSE, val |-> VNull, err |-> err, self |-> self]

\* The host function registry (functions_map).  `f` and `g` return a
\* success envelope, `probe` returns a plain value, `bad` returns a failure
\* envelope and `boom` raises; `nil` returns None, `nested` a success
\* envelope whose data is a success envelope, and `wrap` a success envelope
\* whose data is the list of its arguments.
FunctionsMap == {"f", "g", "probe", "bad", "boom", "nil", "nested", "wrap"}

HostResult(name, args) ==
    CASE name = "f"     -> VEnv(TRUE, VInt(100))
      [] name = "g"     -> VEnv(TRUE, VInt(Len(args)))
      [] name = "probe" -> VBool(TRUE)
      [] name = "bad"   -> VEnv(FALSE, VNull)
      [] name = "boom"  -> Raised
      [] name = "nil"   -> VNull
      [] name = "nested" -> VEnv(TRUE, VEnv(TRUE, VInt(5)))
      [] name = "wrap"  -> VEnv(TRUE, VList(args))

\* AsyncExecutor.call_function on a host callable: the call is made; an
\* exception of the callable becomes a DSLRuntimeError.
CallHost(name, args, self) ==
    LET called == [self EXCEPT !.calls = Append(@, [fn |-> name, args |-> args])]
        result == HostResult(name, args)
    IN  IF result = Raised THEN Fail("DSLRuntimeError", called)
        ELSE Ok(result, called)

\* A result handed on with its envelope, for comparison.
KeepEnvelope(result) == result

\* ResultUnwrapper.unwrap: the data of a success envelope, anything else
\* unchanged.
Unwrap(result) ==
    IF result.t = "env" /\ result.success = TRUE /\ "data" \in DOMAIN result
    THEN result.data
    ELSE result

UnwrapOutcome(r) == IF r.ok THEN [r EXCEPT !.val = Unwrap(@)] ELSE r

\* A scope (ctx): a dict from names to values.
EmptyContext == [n \in {} |-> VNull]

SetValue(ctx, key, value) ==
    [n \in DOMAIN ctx \cup {key} |-> IF n = key THEN value ELSE ctx[n]]

\* ctx.get(name): None when the name is not a key.
GetValue(ctx, name) == IF name \in DOMAIN ctx THEN ctx[name] ELSE VNull

\* _prepare_working_context: a copy of ctx with the executor added.
PrepareWorkingContext(ctx) ==
    SetValue(ctx, "__execute_dsl_function__", VExecutor)

\* What a Python lookup of a syntax node yields: the object itself for a
\* literal, the unevaluated tuple otherwise.
RawValue(node) ==
    CASE node.k = "lit"   -> node.v
      [] node.k = "fndef" -> VFn(node)
      [] OTHER            -> VAst(node)

Least(S) == CHOOSE x \in S : \A y \in S : x <= y

\* root_data.get(name): the value under the plain key `name`.
PlainIndexes(root_data, name) ==
    {i \in 1..Len(root_data) : root_data[i].key = PlainKey(name)}

\* The items of root_data under a typed key named `name`.
TypedIndexes(root_data, name) ==
    {i \in 1..Len(root_data) :
        IsTyped(root_data[i].key) /\ root_data[i].key.name = name}

\* _merge_root_and_context: {**root_data, **ctx}.  The typed keys of the
\* root are tuples, which no lookup by name finds; the plain keys map to
\* their unevaluated values.
MergeRootAndContext(root_data, ctx) ==
    LET plain == {root_data[i].key.name :
                     i \in {j \in 1..Len(root_data) : ~IsTyped(root_data[j].key)}}
    IN  [n \in plain \cup DOMAIN ctx |->
            IF n \in DOMAIN ctx THEN ctx[n]
            ELSE RawValue(root_data[Least(PlainIndexes(root_data, n))].val)]

\* _inject_executor_to_root: root_data['__execute_dsl_function__'] = method.
InjectExecutorToRoot(root_data) ==
    Append(root_data,
           Entry(PlainKey("__execute_dsl_function__"), NLit(VExecutor)))

\* _resolve_from_context, _resolve_from_functions, _resolve_as_type.
ResolveFromContext(name, ctx) == GetValue(ctx, name)

ResolveFromFunctions(name) ==
    IF name \in FunctionsMap THEN VHost(name) ELSE VNull

ResolveAsType(name) ==
    IF TypeMap(name) # "" THEN VType(TypeMap(name)) ELSE VStr(name)

\* _get_attribute_from_value: dict.get for a dict; the values of the model
\* have no attribute of the names the programs use.
GetAttribute(val, attr_name) ==
    IF val.t = "dict" /\ attr_name \in DOMAIN val.f
    THEN val.f[attr_name]
    ELSE VNull

\* The loop of _resolve_dotted_path over the segments after the first.
RECURSIVE NavigatePath(_, _, _)
NavigatePath(val, path, i) ==
    IF i > Len(path) THEN val
    ELSE LET next == GetAttribute(val, path[i])
         IN  IF next = VNull THEN VNull ELSE NavigatePath(next, path, i + 1)

\* _resolve_func: ctx.get(name), root_data.get(name), then the root's typed
\* keys; the root gives the unevaluated value.
ResolveFunc(name, ctx, root_data) ==
    IF DOMAIN ctx # {} /\ GetValue(ctx, name) # VNull THEN GetValue(ctx, name)
    ELSE IF PlainIndexes(root_data, name) # {}
            /\ RawValue(root_data[Least(PlainIndexes(root_data, name))].val)
                   # VNull
         THEN RawValue(root_data[Least(PlainIndexes(root_data, name))].val)
    ELSE IF TypedIndexes(root_data, name) # {}
         THEN RawValue(root_data[Least(TypedIndexes(root_data, name))].val)
    ELSE VNull

\* ------------------------------------------------------------------------
\* language.py: DSLVisitor.visit and the coroutines it dispatches to
\* ------------------------------------------------------------------------
RECURSIVE Visit(_, _, _)
RECURSIVE VisitItems(_, _, _, _, _)
RECURSIVE VisitDictFrom(_, _, _, _, _)
RECURSIVE PipeFrom(_, _, _, _, _, _, _)

\* _resolve_from_root: the value under the plain key, else under the first
\* typed key of that name, visited in the caller's scope; None otherwise.
ResolveFromRoot(name, ctx, self) ==
    LET plain == PlainIndexes(self.root_data, name)
        typed == TypedIndexes(self.root_data, name)
    IN  IF plain # {} /\ RawValue(self.root_data[Least(plain)].val) # VNull
        THEN Visit(self.root_data[Least(plain)].val, ctx, self)
        ELSE IF typed # {}
             THEN Visit(self.root_data[Least(typed)].val, ctx, self)
             ELSE Ok(VNull, self)

\* The end of _resolve's loop: a root resolver that raised or gave None is
\* passed over; the type resolver comes next, and the name itself is the
\* last resort.
ResolveAfterRoot(name, from_root) ==
    IF from_root.ok /\ from_root.val # VNull THEN from_root
    ELSE IF ResolveAsType(name) # VNull
         THEN Ok(ResolveAsType(name), from_root.self)
         ELSE Ok(VStr(name), from_root.self)

\* The loop of _resolve over RESOLVERS for a name without dots: the first
\* resolver with a result other than None wins.
ResolvePipeline(name, ctx, self) ==
    IF ResolveFromContext(name, ctx) # VNull
    THEN Ok(ResolveFromContext(name, ctx), self)
    ELSE IF ResolveFromFunctions(name) # VNull
         THEN Ok(ResolveFromFunctions(name), self)
         ELSE ResolveAfterRoot(name, ResolveFromRoot(name, ctx, self))

\* _resolve_dotted_path: the first segment is resolved, the others are
\* looked up in turn.
NavigateFrom(first, path) ==
    IF first.ok THEN Ok(NavigatePath(first.val, path, 1), first.self)
    ELSE first

ResolveDottedPath(node, ctx, self) ==
    NavigateFrom(ResolvePipeline(node.name, ctx, self), node.path)

\* _resolve: a node that is not resolvable is returned as it is; a dotted
\* name goes through _resolve_dotted_path, any other through the resolvers.
Resolve(node, ctx, self) ==
    IF ~IsResolvable(node) THEN Ok(node, self)
    ELSE IF node.path # <<>> THEN ResolveDottedPath(node, ctx, self)
    ELSE ResolvePipeline(node.name, ctx, self)

\* [await self.visit(x, ctx) for x in items]: the values in order, or the
\* first exception.
VisitItemsNext(items, i, ctx, acc, r) ==
    IF r.ok THEN VisitItems(items, i + 1, ctx, Append(acc, r.val), r.self)
    ELSE r

VisitItems(items, i, ctx, acc, self) ==
    IF i > Len(items) THEN Ok(acc, self)
    ELSE VisitItemsNext(items, i, ctx, acc, Visit(items[i], ctx, self))

\* _execute_operation: every operand is visited, then the operator is
\* applied; any exception becomes a DSLRuntimeError.
ApplyOperation(tag, resolved_args) ==
    IF ~resolved_args.ok THEN Fail("DSLRuntimeError", resolved_args.self)
    ELSE IF ApplyOp(tag, resolved_args.val[1], resolved_args.val[2]) = Raised
    THEN Fail("DSLRuntimeError", resolved_args.self)
    ELSE Ok(ApplyOp(tag, resolved_args.val[1], resolved_args.val[2]),
            resolved_args.self)

ExecuteOperation(node, ctx, self) ==
    ApplyOperation(node.tag, VisitItems(<<node.l, node.r>>, 1, ctx, <<>>, self))

\* _call_function: the host callable is called and its result unwrapped.
CallFunction(name, p_args, self) == UnwrapOutcome(CallHost(name, p_args, self))

\* _get_param_value: the positional argument at the parameter's index,
\* None when there is none.
GetParamValue(index, p_args) ==
    IF index <= Len(p_args) THEN p_args[index] ELSE VNull

\* _map_params_to_context: a fresh scope binding each parameter.
MapParamsToContext(params, p_args) ==
    [n \in {params[i].name : i \in 1..Len(params)} |->
        GetParamValue(Least({i \in 1..Len(params) : params[i].name = n}),
                      p_args)]

\* _extract_outputs: the value bound to each returned name, the name's own
\* text when the scope has none; one output is returned bare.
ExtractOutputs(returns, ctx) ==
    LET results == [i \in 1..Len(returns) |->
                       IF GetValue(ctx, returns[i].name) # VNull
                       THEN GetValue(ctx, returns[i].name)
                       ELSE VStr(returns[i].name)]
    IN  IF Len(returns) = 1 THEN results[1] ELSE VTuple(results)

\* _execute_function_body and _extract_outputs: the body's bindings are
\* added to the function's scope and the outputs read from it.
FunctionOutputs(def, ctx, result) ==
    IF ~result.ok THEN result
    ELSE Ok(ExtractOutputs(def.returns,
                [n \in DOMAIN ctx \cup DOMAIN result.val.f |->
                    IF n \in DOMAIN result.val.f THEN result.val.f[n]
                    ELSE ctx[n]]),
            result.self)

\* execute_dsl_function: a fresh scope holds the parameters (validated
\* against their types); the body is visited in it.
ExecuteDslFunction(def, p_args, self) ==
    IF \E i \in 1..Len(def.params) :
           /\ def.params[i].typ # ""
           /\ ~Validate(GetParamValue(i, p_args), def.params[i].typ)
    THEN Fail("DSLTypeError", self)
    ELSE FunctionOutputs(def, MapParamsToContext(def.params, p_args),
             Visit(def.body, MapParamsToContext(def.params, p_args), self))

\* _execute_resolved: the target found by _resolve_func is executed when it
\* is a function definition, called when it is callable; None otherwise.
ExecuteResolved(name, p_args, ctx, self) ==
    LET target == ResolveFunc(name, ctx, self.root_data)
    IN  CASE IsFunctionDef(target) ->
                ExecuteDslFunction(target.def, p_args, self)
          [] target.t = "host" -> CallHost(target.name, p_args, self)
          [] OTHER -> Ok(VNull, self)

\* The end of _execute: a name that gave nothing raises DSLRuntimeError.
RaiseIfNone(res) ==
    IF res.ok /\ res.val = VNull THEN Fail("DSLRuntimeError", res.self)
    ELSE res

\* _execute, for a simple name other than `include`: a function of the
\* registry is called; otherwise the name is resolved as a function.
Execute(name, p_args, ctx, self) ==
    IF ResolveFromFunctions(name) # VNull
    THEN CallFunction(name, p_args, self)
    ELSE RaiseIfNone(ExecuteResolved(name, p_args, ctx, self))

\* execute_call: the call's name (a plain str) is put through _resolve, the
\* arguments are visited, and the name is executed.
ExecuteCallApply(call, ctx, func_def, p_args) ==
    IF ~p_args.ok THEN p_args
    ELSE IF IsFunctionDef(func_def)
    THEN ExecuteDslFunction(func_def.def, p_args.val, p_args.self)
    ELSE Execute(call.name, p_args.val, ctx, p_args.self)

ExecuteCallArgs(call, ctx, func_def) ==
    ExecuteCallApply(call, ctx, func_def.val,
                     VisitItems(call.args, 1, ctx, <<>>, func_def.self))

ExecuteCall(call, ctx, self) ==
    ExecuteCallArgs(call, ctx, Resolve(VStr(call.name), ctx, self))

\* _build_pipe_args: the incoming value, then the visited arguments; three
\* written arguments whose second is a dict are passed on as one
\* unevaluated tuple.
BuildPipeArgs(prev, p_nodes, context, self) ==
    IF Len(p_nodes) = 3 /\ p_nodes[2].k = "dict"
    THEN Ok(<<prev, VAst(p_nodes)>>, self)
    ELSE VisitItems(p_nodes, 1, context, <<prev>>, self)

\* _execute_pipe_call: the arguments are built, the name (a plain str) is
\* put through _resolve, the name is executed and its result unwrapped.
PipeCallApply(op, context, p_args, func_def) ==
    IF IsFunctionDef(func_def.val)
    THEN ExecuteDslFunction(func_def.val.def, p_args, func_def.self)
    ELSE UnwrapOutcome(Execute(op.name, p_args, context, func_def.self))

PipeCallResolve(op, context, p_args) ==
    IF ~p_args.ok THEN p_args
    ELSE PipeCallApply(op, context, p_args.val,
                       Resolve(VStr(op.name), context, p_args.self))

ExecutePipeCall(op, prev, context, self) ==
    PipeCallResolve(op, context, BuildPipeArgs(prev, op.args, context, self))

\* _execute_pipe_func: `name` is the stage as written, a token (which
\* _resolve resolves) or a plain str (which it returns unchanged).
PipeFuncApply(name, prev, context, func_def) ==
    IF ~func_def.ok THEN func_def
    ELSE IF IsFunctionDef(func_def.val)
    THEN ExecuteDslFunction(func_def.val.def, <<prev>>, func_def.self)
    ELSE UnwrapOutcome(Execute(name, <<prev>>, context, func_def.self))

ExecutePipeFunc(name_node, name, prev, context, self) ==
    PipeFuncApply(name, prev, context, Resolve(name_node, context, self))

\* The closure pipe_stage of _make_pipe_stage: the previous output (or the
\* seed) is unwrapped and handed to the stage.
PipeStageCall(op, seed, outputs, context, self) ==
    LET prev_raw == IF outputs # <<>> THEN outputs[Len(outputs)] ELSE seed
        prev     == Unwrap(prev_raw)
    IN  CASE op.k = "call"  -> ExecutePipeCall(op, prev, context, self)
          [] op.k = "fndef" -> ExecuteDslFunction(op, <<prev>>, self)
          [] op.k = "var" /\ op.path = <<>> ->
                ExecutePipeFunc(op, op.name, prev, context, self)
          [] op.k = "lit" /\ op.v.t = "str" /\ op.v.s # "" ->
                ExecutePipeFunc(op.v, op.v.s, prev, context, self)
          [] OTHER -> Visit(op, context, self)

\* flow.pipe over the stages of an expression, from stage i on: each stage
\* is run by _execute_step_internal, the data of a success envelope (or the
\* whole outcome otherwise) is appended to the outputs and becomes the
\* running result; an exception becomes a DSLRuntimeError in
\* _execute_pipeline.
PipeNext(ops, i, seed, outputs, context, raw) ==
    IF ~raw.ok THEN Fail("DSLRuntimeError", raw.self)
    ELSE PipeFrom(ops, i + 1, seed,
                  Append(outputs, DataToPass(ExecuteStepInternal(raw.val))),
                  DataToPass(ExecuteStepInternal(raw.val)),
                  context, raw.self)

PipeFrom(ops, i, seed, outputs, final_output, context, self) ==
    IF i > Len(ops) THEN Ok(final_output, self)
    ELSE PipeNext(ops, i, seed, outputs, context,
                  IF i = 1 THEN Ok(seed, self)
                  ELSE PipeStageCall(ops[i], seed, outputs, context, self))

\* evaluate_expression: the seed is visited in the merged scope, then the
\* stages run through flow.pipe.
PipeFromSeed(ops, context, seed) ==
    IF ~seed.ok THEN seed
    ELSE PipeFrom(ops, 1, seed.val, <<>>, VNull, context, seed.self)

EvaluateExpression(ops, ctx, self) ==
    PipeFromSeed(ops, MergeRootAndContext(self.root_data, ctx),
                 Visit(ops[1], MergeRootAndContext(self.root_data, ctx), self))

\* One pass of the loop of _visit_dict: the item's value is visited in the
\* working scope, validated against the key's type, then bound in the
\* result and in the working scope.
BindItem(entry, working_ctx, res, val) ==
    IF ~val.ok
    THEN [ok |-> FALSE, err |-> val.err, working_ctx |-> working_ctx,
          res |-> res, self |-> val.self]
    ELSE IF IsTyped(entry.key) /\ ~Validate(val.val, entry.key.typ)
    THEN [ok |-> FALSE, err |-> "DSLTypeError",
          working_ctx |-> working_ctx, res |-> res, self |-> val.self]
    ELSE [ok |-> TRUE, err |-> "",
          working_ctx |-> SetValue(working_ctx, entry.key.name, val.val),
          res |-> SetValue(res, entry.key.name, val.val),
          self |-> val.self]

VisitDictItem(entry, working_ctx, res, self) ==
    BindItem(entry, working_ctx, res, Visit(entry.val, working_ctx, self))

VisitDictNext(entries, i, item) ==
    IF item.ok
    THEN VisitDictFrom(entries, i + 1, item.working_ctx, item.res, item.self)
    ELSE item

VisitDictFrom(entries, i, working_ctx, res, self) ==
    IF i > Len(entries)
    THEN [ok |-> TRUE, err |-> "", working_ctx |-> working_ctx, res |-> res,
          self |-> self]
    ELSE VisitDictNext(entries, i,
                       VisitDictItem(entries[i], working_ctx, res, self))

\* _visit_dict on a nested record: the result record of its items.
DictResult(done) ==
    IF done.ok THEN Ok(VDict(done.res), done.self)
    ELSE Fail(done.err, done.self)

VisitDict(node, ctx, self) ==
    DictResult(VisitDictFrom(node.entries, 1, PrepareWorkingContext(ctx),
                             EmptyContext, self))

\* _visit_list_items: the list of the items' values.
ListResult(items) ==
    IF items.ok THEN Ok(VList(items.val), items.self) ELSE items

\* The body of visit's try block: dispatch on the node.
VisitNode(node, ctx, self) ==
    CASE node.k = "dict"  -> VisitDict(node, ctx, self)
      [] node.k = "list"  ->
            ListResult(VisitItems(node.items, 1, ctx, <<>>, self))
      [] node.k = "op"    -> ExecuteOperation(node, ctx, self)
      [] node.k = "expr"  -> EvaluateExpression(node.ops, ctx, self)
      [] node.k = "call"  -> ExecuteCall(node, ctx, self)
      [] node.k = "var"   -> Resolve(node, ctx, self)
      [] node.k = "fndef" -> Ok(VFn(node), self)
      [] node.k = "lit"   -> Ok(node.v, self)

\* visit's finally block: the depth counter goes down again.
LeaveVisit(r) == [r EXCEPT !.self.depth = @ - 1]

\* visit: the depth counter goes up; beyond the limit DSLRecursionError is
\* raised before the try block; otherwise the node is dispatched.
Visit(node, ctx, self) ==
    IF self.depth + 1 > MAX_RECURSION_DEPTH
    THEN Fail("DSLRecursionError", [self EXCEPT !.depth = @ + 1])
    ELSE LeaveVisit(VisitNode(node, ctx, [self EXCEPT !.depth = @ + 1]))

\* ------------------------------------------------------------------------
\* language.py: DSLVisitor.run on a root record
\* ------------------------------------------------------------------------
\* The source programs of the model, as ConfigTransformer hands them over.
\* `function:h := (int:x), { int:y := x + 10; }, (int:y)` and the same
\* function under the name `f`, which the registry has too.
AddTen ==
    NFnDef(<<TypedKey("int", "x")>>,
           NDict(<<Entry(TypedKey("int", "y"),
                         NOp("OP_ADD", NVar("x"), NLit(VInt(10))))>>),
           <<TypedKey("int", "y")>>)

TypeNames ==
    {"int", "integer", "i64", "str", "string", "dict", "list", "array",
     "float", "f64", "bool", "boolean", "any", "number", "function",
     "Money"}

ValueNodes ==
    {NLit(VBool(TRUE)), NLit(VBool(FALSE)), NLit(VInt(0)), NLit(VInt(1)),
     NLit(VFloat(4)), NLit(VFloat(5)), NLit(VStr("s")), NLit(VStr("")),
     NDict(<<>>), NList(<<>>), AddTen}

\* { T:x := v; }
TypedPrograms ==
    {<<Entry(TypedKey(T, "x"), v)>> : T \in TypeNames, v \in ValueNodes}

\* { any:r := x and probe(); }  and  { any:r := x or probe(); }
LogicPrograms ==
    {<<Entry(TypedKey("any", "r"), NOp(tag, x, NCall("probe", <<>>)))>> :
        tag \in {"OP_AND", "OP_OR"},
        x \in {NLit(VBool(TRUE)), NLit(VBool(FALSE)),
               NLit(VInt(0)), NLit(VInt(1))}}

\* int:b := a + 1   and   int:a := 1
DeclB == Entry(TypedKey("int", "b"), NOp("OP_ADD", NVar("a"), NLit(VInt(1))))
DeclA == Entry(TypedKey("int", "a"), NLit(VInt(1)))
\* any:c := a
DeclC == Entry(TypedKey("any", "c"), NVar("a"))

\* Records whose first item names the second: at the root and nested.
ForwardPrograms ==
    {<<DeclB, DeclA>>,
     <<DeclC, DeclA>>,
     <<Entry(TypedKey("dict", "o"), NDict(<<DeclB, DeclA>>))>>,
     <<Entry(TypedKey("dict", "o"), NDict(<<DeclC, DeclA>>))>>}

\* The same items in the order that binds before use.
OrderedPrograms ==
    {<<DeclA, DeclB>>,
     <<DeclA, DeclC>>,
     <<Entry(TypedKey("dict", "o"), NDict(<<DeclA, DeclB>>))>>,
     <<DeclA, Entry(TypedKey("dict", "o"), NDict(<<DeclB>>))>>}

\* A user function bound in scope and then called: directly, as a pipe call
\* stage, as a bare pipe stage.  The registry has `f` and lacks `h`.
CallShapes(name) ==
    {NCall(name, <<NLit(VInt(1))>>),
     NExpr(<<NLit(VInt(1)), NCall(name, <<>>)>>),
     NExpr(<<NLit(VInt(1)), NVar(name)>>)}

CalleePrograms ==
    {<<Entry(TypedKey("function", name), AddTen),
       Entry(TypedKey("any", "r"), c)>> :
        name \in {"f", "h"}, c \in CallShapes("f") \cup CallShapes("h")}

\* Names that nothing binds: `foo`, `foo.bar`, and `o.missing` on a record
\* without that field.
UnknownPrograms ==
    {<<Entry(TypedKey("any", "x"), NVar("foo"))>>,
     <<Entry(TypedKey("any", "x"), NDotted("foo", <<"bar">>))>>,
     <<Entry(TypedKey("dict", "o"), NDict(<<DeclA>>)),
       Entry(TypedKey("any", "x"), NDotted("o", <<"a">>))>>,
     <<Entry(TypedKey("dict", "o"), NDict(<<DeclA>>)),
       Entry(TypedKey("any", "x"), NDotted("o", <<"missing">>))>>,
     <<Entry(TypedKey("int", "x"),
             NOp("OP_ADD", NVar("foo"), NLit(VInt(1))))>>,
     <<Entry(TypedKey("any", "x"), NCall("nothing", <<>>))>>}

\* { any:r := 1 |> g(x1, ..., xn); } for n up to MaxArgs, each argument a
\* number or a dictionary.
ArgNodes == {NLit(VInt(7)), NDict(<<>>), NDict(<<DeclA>>)}

PipeCallPrograms ==
    {<<Entry(TypedKey("any", "r"),
             NExpr(<<NLit(VInt(1)), NCall("g", args)>>))>> :
        args \in SeqsUpTo(ArgNodes, MaxArgs)}

\* { any:r := 1 |> s1 |> s2; } over the functions of the registry.
PipeChainPrograms ==
    {<<Entry(TypedKey("any", "r"),
             NExpr(<<NLit(VInt(1)), NVar(s1), NVar(s2)>>))>> :
        s1 \in FunctionsMap, s2 \in FunctionsMap}

\* { any:r := 1 |> fn |> wrap; }, { any:r := (1 |> fn) |> wrap; } and
\* { any:r := wrap(fn(1)); } for a host function fn that returns a success
\* envelope, a plain value, a failure envelope, None, or an envelope inside
\* an envelope.
FirstStages == {"f", "probe", "bad", "nil", "nested"}

ChainShape(fn) ==
    <<Entry(TypedKey("any", "r"),
            NExpr(<<NLit(VInt(1)), NVar(fn), NVar("wrap")>>))>>

GroupedShape(fn) ==
    <<Entry(TypedKey("any", "r"),
            NExpr(<<NExpr(<<NLit(VInt(1)), NVar(fn)>>), NVar("wrap")>>))>>

NestedCallShape(fn) ==
    <<Entry(TypedKey("any", "r"),
            NCall("wrap", <<NCall(fn, <<NLit(VInt(1))>>)>>))>>

AssociativityPrograms ==
    {ChainShape(fn) : fn \in FirstStages}
        \cup {GroupedShape(fn) : fn \in FirstStages}
        \cup {NestedCallShape(fn) : fn \in FirstStages}

\* { int:x := 5; int:y := x + 10; }
SumProgram ==
    <<Entry(TypedKey("int", "x"), NLit(VInt(5))),
      Entry(TypedKey("int", "y"), NOp("OP_ADD", NVar("x"), NLit(VInt(10))))>>

Programs ==
    TypedPrograms \cup LogicPrograms \cup ForwardPrograms
        \cup OrderedPrograms \cup CalleePrograms \cup UnknownPrograms
        \cup PipeCallPrograms \cup PipeChainPrograms \cup {SumProgram}
        \cup AssociativityPrograms

EvalInit ==
    \E program \in Programs :
        ev = [pc |-> "start", program |-> program,
              self |-> NewVisitor(program), index |-> 1,
              working_ctx |-> EmptyContext, res |-> EmptyContext,
              error |-> "", result |-> None]

\* run, up to the loop of _visit_dict on the root: the executor is added to
\* root_data, visit is entered and the working scope prepared.
EvalRun ==
    /\ ev.pc = "start"
    /\ ev' = [ev EXCEPT
                !.pc = "items",
                !.self = [root_data |-> InjectExecutorToRoot(ev.program),
                          depth |-> 1, calls |-> <<>>],
                !.working_ctx = PrepareWorkingContext(EmptyContext)]
    /\ UNCHANGED <<rt, pp, sw, tm, rc, bt, ct, el, te, cr, br, rn, dp>>

\* The evaluator after an item of the root record: the binding is kept and
\* the loop goes on, or the exception leaves run, whose finally block resets
\* the depth counter.
AfterItem(e, item) ==
    IF item.ok
    THEN [e EXCEPT !.index = @ + 1,
                   !.working_ctx = item.working_ctx,
                   !.res = item.res,
                   !.self = item.self]
    ELSE [e EXCEPT !.pc = "raised",
                   !.error = item.err,
                   !.self = [item.self EXCEPT !.depth = 0]]

\* One item of the root record.
EvalItem ==
    /\ ev.pc = "items"
    /\ ev.index <= Len(ev.self.root_data)
    /\ ev' = AfterItem(ev, VisitDictItem(ev.self.root_data[ev.index],
                                         ev.working_ctx, ev.res, ev.self))
    /\ UNCHANGED <<rt, pp, sw, tm, rc, bt, ct, el, te, cr, br, rn, dp>>

\* The loop is over: the record has no trigger, visit returns the result
\* and run returns it.
EvalReturn ==
    /\ ev.pc = "items"
    /\ ev.index > Len(ev.self.root_data)
    /\ ev' = [ev EXCEPT !.pc = "done",
                        !.result = VDict(ev.res),
                        !.self = [ev.self EXCEPT !.depth = 0]]
    /\ UNCHANGED <<rt, pp, sw, tm, rc, bt, ct, el, te, cr, br, rn, dp>>

InitEval == EvalInit /\ rt = Idle /\ pp = Idle /\ sw = Idle /\ tm = Idle
    /\ rc = Idle /\ bt = Idle /\ ct = Idle /\ el = Idle /\ te = Idle
    /\ cr = Idle
    /\ br = Idle
    /\ rn = Idle
    /\ dp = Idle

NextEval == EvalRun \/ EvalItem \/ EvalReturn

SpecEval == InitEval /\ [][NextEval]_vars

\* ------------------------------------------------------------------------
\* The evaluator against the language's rules
\* ------------------------------------------------------------------------
Finished == ev.pc \in {"done", "raised"}

\* C4: logical operators short-circuit.  In `x and y` the operand y is
\* evaluated (its host call is made) iff x is truthy; in `x or y`, iff x is
\* falsy.
C4_ShortCircuit ==
    (ev.pc = "done" /\ ev.program \in LogicPrograms) =>
        LET node == ev.program[1].val
        IN  (\E c \in 1..Len(ev.self.calls) : ev.self.calls[c].fn = "probe")
                <=> \/ (node.tag = "OP_AND" /\ PyTruthy(node.l.v))
                    \/ (node.tag = "OP_OR" /\ ~PyTruthy(node.l.v))

\* Assignability as the type system states it: `any` accepts anything,
\* `number` an integer or a float, `int` an integer or a whole-valued
\* float, every other built-in its own variant only.
Assignable(value, type_name) ==
    CASE type_name = "any" -> TRUE
      [] type_name = "number" -> value.t \in {"int", "float"}
      [] type_name \in {"int", "integer", "i64"} ->
            value.t = "int" \/ (value.t = "float" /\ value.h % 2 = 0)
      [] type_name \in {"float", "f64"} -> value.t = "float"
      [] type_name \in {"str", "string"} -> value.t = "str"
      [] type_name \in {"bool", "boolean"} -> value.t = "bool"
      [] type_name \in {"list", "array"} -> value.t = "list"
      [] type_name = "dict" -> value.t = "dict"
      [] type_name = "function" -> value.t = "fn"
      [] OTHER -> TRUE

\* C5: every binding made by a typed declaration `T:n := e` of the root
\* record holds a value assignable to T, and a declaration that raised a
\* type error left no binding in the working scope or in the result.
C5_TypedBindingsAssignable ==
    ev.pc \in {"items", "done", "raised"} =>
        /\ \A i \in 1..Len(ev.program) :
               (i < ev.index /\ IsTyped(ev.program[i].key)) =>
                   Assignable(ev.res[ev.program[i].key.name],
                              ev.program[i].key.typ)
        /\ (ev.pc = "raised" /\ ev.error = "DSLTypeError") =>
               /\ ev.program[ev.index].key.name \notin DOMAIN ev.res
               /\ ev.program[ev.index].key.name \notin DOMAIN ev.working_ctx

\* C6: a record whose item names something that only a later item of the
\* same record binds fails (with a name error, whatever class carries it)
\* instead of producing a value, at the root and nested.
C6_LaterNamesInvisible ==
    (Finished /\ ev.program \in ForwardPrograms) => ev.pc = "raised"

\* The name in call position of `f(1)`, `1 |> f()` and `1 |> f`.
CalleeName(node) ==
    IF node.k = "call" THEN node.name ELSE node.ops[Len(node.ops)].name

\* C7: a name in call position that the scope binds to a user function is
\* executed as that function, whether or not the registry has the name; the
\* registry's function of that name is not called.
C7_ScopeBindingWins ==
    (Finished /\ ev.program \in CalleePrograms
        /\ CalleeName(ev.program[2].val) = ev.program[1].key.name) =>
        /\ ev.pc = "done"
        /\ ev.res["r"] = VInt(11)
        /\ \A c \in 1..Len(ev.self.calls) :
               ev.self.calls[c].fn # ev.program[1].key.name

\* { any:x := foo; }, { any:x := foo.bar; } and the lookup of `o.missing`.
UnknownNamePrograms ==
    {p \in UnknownPrograms :
        /\ p[Len(p)].val.k = "var"
        /\ p[Len(p)].val.path # <<"a">>}

\* C8: resolving a name that nothing binds, or a dotted name one of whose
\* segments yields nothing, fails (with a name error, whatever class
\* carries it); it yields no value to bind.
C8_UnknownNameRaises ==
    (Finished /\ ev.program \in UnknownNamePrograms) =>
        /\ ev.pc = "raised"
        /\ "x" \notin DOMAIN ev.res

\* The value of a written argument, evaluated on its own.
ArgumentValue(node) == Visit(node, EmptyContext, NewVisitor(<<>>)).val

\* C9: the pipe stage g(x1, ..., xn) after the seed 1 calls g exactly once,
\* with the incoming value followed by the values of x1..xn.
C9_PipeCallArguments ==
    (Finished /\ ev.program \in PipeCallPrograms) =>
        LET written == ev.program[1].val.ops[2].args
        IN  /\ ev.pc = "done"
            /\ ev.self.calls =
                 <<[fn |-> "g",
                    args |-> <<VInt(1)>> \o
                             [i \in 1..Len(written) |->
                                 ArgumentValue(written[i])]]>>

\* The names that the items of a record bind.
BoundNames(program) == {program[i].key.name : i \in DOMAIN program}

\* C25: the record that run returns has exactly the names bound by the
\* items of the source as its fields, each with its evaluated value: the
\* record { int:x := 5; int:y := x + 10; } evaluates to {x: 5, y: 15}.
C25_RecordFields ==
    ev.pc = "done" =>
        /\ DOMAIN ev.result.f = BoundNames(ev.program)
        /\ ev.program = SumProgram =>
              ev.result = VDict([n \in {"x", "y"} |->
                                   IF n = "x" THEN VInt(5) ELSE VInt(15)])

\* C27: `int:x := e` with e a float of integral value is accepted and binds
\* x to the corresponding integer.
C27_IntegralFloatCoerced ==
    (/\ Finished
     /\ ev.program \in TypedPrograms
     /\ TypeMap(ev.program[1].key.typ) = "int"
     /\ ev.program[1].val.k = "lit"
     /\ IsWholeNumber(ev.program[1].val.v)) =>
        /\ ev.pc = "done"
        /\ ev.result.f["x"] = VInt(ev.program[1].val.v.h \div 2)

\* A value with every success envelope around it taken off.
RECURSIVE DeepUnwrap(_)
DeepUnwrap(v) ==
    IF v.t = "env" /\ v.success THEN DeepUnwrap(v.data) ELSE v

\* The first stage of an associativity program.
FirstStageOf(program) ==
    CHOOSE fn \in FirstStages :
        program \in {ChainShape(fn), GroupedShape(fn), NestedCallShape(fn)}

\* C26: `1 |> fn |> wrap`, `(1 |> fn) |> wrap` and `wrap(fn(1))` call fn
\* once with 1 and then wrap once with the output of fn, and evaluate to
\* what wrap returned for it, the same for the three (envelopes unwrapped),
\* whether fn returns a success, a failure or None.
C26_PipeAssociativity ==
    (Finished /\ ev.program \in AssociativityPrograms) =>
        LET fn == FirstStageOf(ev.program)
            out == DeepUnwrap(HostResult(fn, <<VInt(1)>>))
        IN  /\ ev.pc = "done"
            /\ Len(ev.self.calls) = 2
            /\ ev.self.calls[1] = [fn |-> fn, args |-> <<VInt(1)>>]
            /\ ev.self.calls[2].fn = "wrap"
            /\ Len(ev.self.calls[2].args) = 1
            /\ DeepUnwrap(ev.self.calls[2].args[1]) = out
            /\ ev.result.f["r"].t = "list"
            /\ Len(ev.result.f["r"].items) = 1
            /\ DeepUnwrap(ev.result.f["r"].items[1]) = out

\* `(1 |> bad) |> wrap` has run: wrap was given the failure envelope.
C26_Witness ==
    /\ ev.pc = "done"
    /\ ev.program = GroupedShape("bad")
    /\ Len(ev.self.calls) = 2
    /\ ev.self.calls[2].args = <<VEnv(FALSE, VNull)>>

\* ------------------------------------------------------------------------
\* language.py: the trigger loops of DSLVisitor (_start_trigger)
\* ------------------------------------------------------------------------
\* What the event callee returns on a poll: envelopes with and without
\* data, an envelope whose data is an envelope, plain values, or an
\* exception.
PollResults ==
    {VEnv(TRUE, VStr("evt")), VEnv(TRUE, VStr("")), VEnv(TRUE, VNull),
     VEnv(TRUE, VEnv(TRUE, VStr("inner"))), VEnv(FALSE, VStr("evt")),
     VStr("evt"), VNull, Raised}

\* The scope the trigger captured.
CapturedScope == SetValue(EmptyContext, "x", VInt(1))

\* execute_call on the event callee, a host function: _execute dispatches a
\* dotted name to _execute_qualified, which returns what the callable
\* returned, and a plain name of the registry to _call_function, which
\* unwraps it.
PollOutcome(callee, raw) ==
    IF callee = "dotted" THEN raw ELSE Unwrap(raw)

\* _extract_event_data
ExtractEventData(result) ==
    IF result.t = "env" /\ result.success THEN result.data ELSE VNull

\* _create_event_context
CreateEventContext(ctx, event_data) == SetValue(ctx, "@event", event_data)

\* A handler that goes on with the loop, for comparison.
KeepLooping(pc) == pc

\* except asyncio.CancelledError: break (a cancellation that arrives during
\* the sleep of the error handler leaves the loop as well, by propagating).
OnCancelled(pc) == "exited"

TriggerInit ==
    \E kind \in {"event", "cron"}, callee \in {"plain", "dotted"} :
        /\ kind = "cron" => callee = "plain"
        /\ el = [kind |-> kind, callee |-> callee, pc |-> "start",
                 ctx |-> CapturedScope, polled |-> None, res |-> None,
                 event_ctx |-> None, polls |-> 0, fired |-> 0,
                 waited |-> 0, after_error |-> FALSE,
                 cancelled |-> FALSE, polls_at_cancel |-> 0,
                 fired_at_cancel |-> 0]

\* The top of `while True` in _event_loop: the callee is called and the
\* loop awaits it.
EventPollStarts ==
    /\ el.kind = "event"
    /\ el.pc \in {"start", "next"}
    /\ el.polls < MaxPolls
    /\ el' = [el EXCEPT !.pc = "polling", !.polls = @ + 1,
                        !.polled = None, !.res = None,
                        !.event_ctx = None]
    /\ UNCHANGED <<rt, pp, sw, tm, ev, rc, bt, ct, te, cr, br, rn, dp>>

\* The poll is over: an exception goes to the error handler; a truthy event
\* datum starts the evaluation of the action in the event scope; anything
\* else goes to the one-second sleep.
EventPollReturns ==
    /\ el.kind = "event"
    /\ el.pc = "polling"
    /\ \E raw \in PollResults :
         LET res        == PollOutcome(el.callee, raw)
             event_data == ExtractEventData(res)
         IN  el' = CASE raw = Raised ->
                          [el EXCEPT !.pc = "backoff", !.polled = raw]
                     [] raw # Raised /\ PyTruthy(event_data) ->
                          [el EXCEPT
                             !.pc = "action", !.polled = raw, !.res = res,
                             !.fired = @ + 1,
                             !.event_ctx =
                                 CreateEventContext(el.ctx, event_data)]
                     [] OTHER ->
                          [el EXCEPT !.pc = "sleep", !.polled = raw,
                                     !.res = res]
    /\ UNCHANGED <<rt, pp, sw, tm, ev, rc, bt, ct, te, cr, br, rn, dp>>

\* The action has been evaluated: the loop goes on at once, or the action's
\* error goes to the error handler.
EventActionEnds ==
    /\ el.kind = "event"
    /\ el.pc = "action"
    /\ \E ok \in BOOLEAN :
         el' = [el EXCEPT !.pc = IF ok THEN "next" ELSE "backoff",
                          !.after_error = IF ok THEN FALSE ELSE @]
    /\ UNCHANGED <<rt, pp, sw, tm, ev, rc, bt, ct, te, cr, br, rn, dp>>

\* await asyncio.sleep(1)
EventSleeps ==
    /\ el.kind = "event"
    /\ el.pc = "sleep"
    /\ el' = [el EXCEPT !.pc = "next", !.waited = 1, !.after_error = FALSE]
    /\ UNCHANGED <<rt, pp, sw, tm, ev, rc, bt, ct, te, cr, br, rn, dp>>

\* except Exception: log, await asyncio.sleep(5), and the loop goes on.
EventBacksOff ==
    /\ el.kind = "event"
    /\ el.pc = "backoff"
    /\ el' = [el EXCEPT !.pc = "next", !.waited = 5, !.after_error = TRUE]
    /\ UNCHANGED <<rt, pp, sw, tm, ev, rc, bt, ct, te, cr, br, rn, dp>>

\* The top of `while True` in _cron_loop: the pattern matches the current
\* time and the action is evaluated, or it does not and the loop sleeps.
CronChecks ==
    /\ el.kind = "cron"
    /\ el.pc \in {"start", "next"}
    /\ el.polls < MaxPolls
    /\ \E matches \in BOOLEAN :
         el' = [el EXCEPT !.pc = IF matches THEN "action" ELSE "sleep",
                          !.polls = @ + 1,
                          !.fired = IF matches THEN @ + 1 ELSE @]
    /\ UNCHANGED <<rt, pp, sw, tm, ev, rc, bt, ct, te, cr, br, rn, dp>>

\* _execute_action_safely: the action has been evaluated, an error of the
\* action being logged and dropped; the loop sleeps to the next minute.
CronActionEnds ==
    /\ el.kind = "cron"
    /\ el.pc = "action"
    /\ \E ok \in BOOLEAN :
         el' = [el EXCEPT !.pc = "sleep", !.after_error = ~ok]
    /\ UNCHANGED <<rt, pp, sw, tm, ev, rc, bt, ct, te, cr, br, rn, dp>>

\* await asyncio.sleep(wait_seconds), between 1 and 60 seconds.
CronSleeps ==
    /\ el.kind = "cron"
    /\ el.pc = "sleep"
    /\ \E wait_seconds \in {1, 60} :
         el' = [el EXCEPT !.pc = "next", !.waited = wait_seconds]
    /\ UNCHANGED <<rt, pp, sw, tm, ev, rc, bt, ct, te, cr, br, rn, dp>>

\* The trigger task is cancelled: before it ever ran, or at the await it
\* is suspended at (the poll, the action, a sleep).  CancelledError is
\* raised there and the loop is left.
TriggerCancelled ==
    /\ el.pc \in {"start", "polling", "action", "sleep", "backoff"}
    /\ el' = [el EXCEPT !.pc = OnCancelled(el.pc),
                        !.cancelled = TRUE,
                        !.polls_at_cancel = el.polls,
                        !.fired_at_cancel = el.fired]
    /\ UNCHANGED <<rt, pp, sw, tm, ev, rc, bt, ct, te, cr, br, rn, dp>>

InitTrigger == TriggerInit /\ rt = Idle /\ pp = Idle /\ sw = Idle
    /\ tm = Idle /\ ev = Idle /\ rc = Idle /\ bt = Idle /\ ct = Idle
    /\ te = Idle
    /\ cr = Idle
    /\ br = Idle
    /\ rn = Idle
    /\ dp = Idle

NextTrigger ==
    \/ EventPollStarts
    \/ EventPollReturns
    \/ EventActionEnds
    \/ EventSleeps
    \/ EventBacksOff
    \/ CronChecks
    \/ CronActionEnds
    \/ CronSleeps
    \/ TriggerCancelled

SpecTrigger == InitTrigger /\ [][NextTrigger]_vars

\* The poll results on which the action is to run: a success envelope with
\* non-empty data.
EventDetected(raw) ==
    raw # Raised /\ raw.t = "env" /\ raw.success /\ PyTruthy(raw.data)

\* C18: on every poll in which the event callee, named plainly or by a
\* dotted name, returns a success envelope with non-empty data, the action
\* is evaluated in a scope that layers @event = that data over the captured
\* scope; on every other poll result the action is not evaluated and the
\* loop sleeps one second.
C18_EventFiresOnSuccessWithData ==
    el.kind = "event" =>
        /\ el.pc = "action" =>
              /\ EventDetected(el.polled)
              /\ el.event_ctx = SetValue(el.ctx, "@event", el.polled.data)
        /\ el.pc = "sleep" => ~EventDetected(el.polled)

TriggerKinds == {"event", "cron", "other"}

\* register_triggers: one task per event or cron trigger, in order; a key
\* that is neither is skipped.
RECURSIVE RegisteredTasks(_)
RegisteredTasks(triggers) ==
    IF triggers = <<>> THEN <<>>
    ELSE (IF Head(triggers) \in {"event", "cron"}
          THEN <<[kind |-> Head(triggers), pc |-> "start", rounds |-> 0,
                  cancel_requested |-> FALSE, swallowed |-> FALSE]>>
          ELSE <<>>)
             \o RegisteredTasks(Tail(triggers))

\* shutdown: for task in self.tasks: task.cancel()
CancelAll(tasks) ==
    [i \in DOMAIN tasks |->
        IF tasks[i].pc = "exited" THEN tasks[i]
        ELSE [tasks[i] EXCEPT !.cancel_requested = TRUE]]

\* A shutdown that does not wait for its tasks, for comparison.
ReturnWithoutWaiting(tasks) == TRUE

\* await asyncio.gather(*self.tasks, return_exceptions=True) is over: every
\* task is done.
GatherDone(tasks) == \A i \in DOMAIN tasks : tasks[i].pc = "exited"

EngineInit ==
    \E triggers \in SeqsUpTo(TriggerKinds, MaxTriggers) :
        te = [pc |-> "new", triggers |-> triggers, tasks |-> <<>>,
              evaluations |-> 0, evaluations_at_return |-> 0]

EngineRegisterTriggers ==
    /\ te.pc = "new"
    /\ te' = [te EXCEPT !.pc = "running",
                        !.tasks = RegisteredTasks(te.triggers)]
    /\ UNCHANGED <<rt, pp, sw, tm, ev, rc, bt, ct, el, cr, br, rn, dp>>

\* A task that has not been cancelled begins an iteration of its loop: an
\* event loop polls; a cron loop evaluates its action when the pattern
\* matches the current time and sleeps otherwise.
EngineTaskIterates ==
    /\ te.pc \in {"running", "gathering", "returned"}
    /\ \E i \in DOMAIN te.tasks :
         /\ te.tasks[i].pc \in {"start", "next"}
         /\ ~te.tasks[i].cancel_requested \/ te.tasks[i].swallowed
         /\ te.tasks[i].rounds < MaxPolls
         /\ \E matches \in BOOLEAN :
              LET fires == te.tasks[i].kind = "cron" /\ matches
              IN  te' = [te EXCEPT
                           !.tasks[i].rounds = @ + 1,
                           !.tasks[i].pc =
                               IF te.tasks[i].kind = "event" THEN "polling"
                               ELSE IF matches THEN "action" ELSE "sleep",
                           !.evaluations = IF fires THEN @ + 1 ELSE @]
    /\ UNCHANGED <<rt, pp, sw, tm, ev, rc, bt, ct, el, cr, br, rn, dp>>

\* The poll of an event loop is over: a success envelope starts the
\* evaluation of the action, another result goes to the one-second sleep,
\* an exception to the error handler.
EngineTaskPolled ==
    /\ te.pc \in {"running", "gathering", "returned"}
    /\ \E i \in DOMAIN te.tasks :
         /\ te.tasks[i].pc = "polling"
         /\ ~te.tasks[i].cancel_requested \/ te.tasks[i].swallowed
         /\ \E next \in {"action", "sleep", "backoff"} :
              te' = [te EXCEPT
                       !.tasks[i].pc = next,
                       !.evaluations = IF next = "action" THEN @ + 1 ELSE @]
    /\ UNCHANGED <<rt, pp, sw, tm, ev, rc, bt, ct, el, cr, br, rn, dp>>

\* The action is over (an error goes to the error handler; a cron loop
\* sleeps to the next minute after its action), or a sleep is over.
EngineTaskResumes ==
    /\ te.pc \in {"running", "gathering", "returned"}
    /\ \E i \in DOMAIN te.tasks :
         /\ te.tasks[i].pc \in {"action", "sleep", "backoff"}
         /\ ~te.tasks[i].cancel_requested \/ te.tasks[i].swallowed
         /\ \E ok \in BOOLEAN :
              te' = [te EXCEPT
                       !.tasks[i].pc =
                           CASE te.tasks[i].pc = "action" /\ ~ok -> "backoff"
                             [] te.tasks[i].pc = "action" /\ ok
                                  /\ te.tasks[i].kind = "cron" -> "sleep"
                             [] OTHER -> "next"]
    /\ UNCHANGED <<rt, pp, sw, tm, ev, rc, bt, ct, el, cr, br, rn, dp>>

\* A cancelled task is resumed with CancelledError at the await it is
\* suspended at, or is never started: its loop breaks and the task ends.
EngineTaskExits ==
    /\ \E i \in DOMAIN te.tasks :
         /\ te.tasks[i].cancel_requested /\ ~te.tasks[i].swallowed
         /\ te.tasks[i].pc # "exited"
         /\ te' = [te EXCEPT !.tasks[i].pc = "exited"]
    /\ UNCHANGED <<rt, pp, sw, tm, ev, rc, bt, ct, el, cr, br, rn, dp>>

\* A cancelled task whose action is waiting in flow.race: race turns the
\* CancelledError into an UnboundLocalError, the loop's handler for
\* Exception takes it, and the loop goes on after the back-off.
EngineTaskSwallows ==
    /\ \E i \in DOMAIN te.tasks :
         /\ te.tasks[i].cancel_requested /\ ~te.tasks[i].swallowed
         /\ te.tasks[i].pc = "action"
         /\ te' = [te EXCEPT !.tasks[i].swallowed = TRUE,
                              !.tasks[i].pc = "backoff"]
    /\ UNCHANGED <<rt, pp, sw, tm, ev, rc, bt, ct, el, cr, br, rn, dp>>

\* shutdown up to its await: every task is cancelled; with no task at all
\* shutdown returns at once.
EngineShutdown ==
    /\ te.pc = "running"
    /\ te' = [te EXCEPT
                !.pc = IF te.tasks = <<>> THEN "returned" ELSE "gathering",
                !.tasks = CancelAll(te.tasks),
                !.evaluations_at_return = te.evaluations]
    /\ UNCHANGED <<rt, pp, sw, tm, ev, rc, bt, ct, el, cr, br, rn, dp>>

\* gather is over and shutdown returns.
EngineShutdownReturns ==
    /\ te.pc = "gathering"
    /\ GatherDone(te.tasks)
    /\ te' = [te EXCEPT !.pc = "returned",
                        !.evaluations_at_return = te.evaluations]
    /\ UNCHANGED <<rt, pp, sw, tm, ev, rc, bt, ct, el, cr, br, rn, dp>>

InitEngine == EngineInit /\ rt = Idle /\ pp = Idle /\ sw = Idle
    /\ tm = Idle /\ ev = Idle /\ rc = Idle /\ bt = Idle /\ ct = Idle
    /\ el = Idle
    /\ cr = Idle
    /\ br = Idle
    /\ rn = Idle
    /\ dp = Idle

NextEngine ==
    \/ EngineRegisterTriggers
    \/ EngineTaskIterates
    \/ EngineTaskPolled
    \/ EngineTaskResumes
    \/ EngineTaskExits
    \/ EngineTaskSwallows
    \/ EngineShutdown
    \/ EngineShutdownReturns

SpecEngine == InitEngine /\ [][NextEngine]_vars

\* C20: shutdown signals cancellation to every trigger task the scheduler
\* registered and returns only after all of them have exited; once it has
\* returned, no trigger action is evaluated any more.
C20_ShutdownStopsTriggers ==
    /\ te.pc \in {"gathering", "returned"} =>
          \A i \in DOMAIN te.tasks :
              te.tasks[i].cancel_requested \/ te.tasks[i].pc = "exited"
    /\ te.pc = "returned" =>
          /\ \A i \in DOMAIN te.tasks : te.tasks[i].pc = "exited"
          /\ te.evaluations = te.evaluations_at_return

\* A scheduler with an event and a cron trigger whose shutdown has returned
\* after actions had been evaluated.
C20_Witness ==
    /\ te.pc = "returned"
    /\ Len(te.tasks) = 2
    /\ te.tasks[1].kind = "event" /\ te.tasks[2].kind = "cron"
    /\ te.evaluations >= 2

\* ------------------------------------------------------------------------
\* language.py: the cron loop against the wall clock (_cron_loop)
\* ------------------------------------------------------------------------
\* The wildcard of a pattern: the transformer turns both `*` and "*" into
\* the string '*'.
Wild == VStr("*")

\* str(x) of a pattern component or of a calendar field.
Str(x) == IF x.t = "int" THEN ToString(x.n) ELSE x.s

\* A matcher that accepts every moment, for comparison.
MatchEveryMoment(data, pattern) == TRUE

\* PatternMatcher.match_list_wildcard, reached from WildcardMatcher.match
\* for a tuple pattern and a tuple of data.
MatchListWildcard(data, pattern) ==
    IF Len(pattern) # Len(data) THEN FALSE
    ELSE \A i \in 1..Len(pattern) :
            pattern[i] = Wild \/ Str(pattern[i]) = Str(data[i])

\* The seconds of a minute (wait = 60 - now.second).
SecondsPerMinute == 60

\* The wall clock, in seconds from 23:58:00 of Tuesday 31 December: the
\* minutes that follow are 23:59 and then 00:00, 00:01, ... of Wednesday
\* 1 January (weekday() counts from Monday = 0).
MinuteOf(now) == now \div SecondsPerMinute

SecondOf(now) == now % SecondsPerMinute

\* _get_current_time_tuple: (minute, hour, day, month, weekday)
GetCurrentTimeTuple(now) ==
    IF MinuteOf(now) < 2
    THEN <<VInt(58 + MinuteOf(now)), VInt(23), VInt(31), VInt(12), VInt(1)>>
    ELSE <<VInt(MinuteOf(now) - 2), VInt(0), VInt(1), VInt(1), VInt(2)>>

\* _get_seconds_until_next_minute
GetSecondsUntilNextMinute(now) ==
    LET wait == SecondsPerMinute - SecondOf(now)
    IN  IF wait > 0 THEN wait ELSE SecondsPerMinute

\* The cron patterns of the triggers: five components, each a small
\* integer or the wildcard, at least one of them the wildcard (a tuple
\* without a wildcard is not taken for a trigger), and a pattern of four
\* components.
PatternFields == <<{59, 0}, {23, 0}, {1}, {12}, {2}>>

CronPatterns ==
    {p \in [1..5 -> {Wild} \cup {VInt(k) : k \in {0, 1, 2, 12, 23, 59}}] :
        /\ \E i \in 1..5 : p[i] = Wild
        /\ \A i \in 1..5 : p[i] # Wild => p[i].n \in PatternFields[i]}
      \cup {<<Wild, Wild, Wild, Wild>>}

\* The second of the minute at which the trigger is registered, and how
\* long an evaluation of the action takes.
StartSeconds == {0, 50}

ActionSeconds == {0, 20, 70}

CronInit ==
    \E pattern \in CronPatterns, start \in StartSeconds :
        cr = [pc |-> "check", pattern |-> pattern, now |-> start,
              registered |-> start, iterations |-> 0,
              current |-> <<>>, matched |-> FALSE, evaluated |-> FALSE,
              fired |-> <<>>]

\* The top of the loop: read the clock, match, and start the action on a
\* match.
CronLoopChecks ==
    /\ cr.pc = "check"
    /\ MinuteOf(cr.now) < MaxMinutes
    /\ LET current == GetCurrentTimeTuple(cr.now)
           matched == MatchListWildcard(current, cr.pattern)
       IN  cr' = [cr EXCEPT
                    !.pc = IF matched THEN "action" ELSE "sleep",
                    !.iterations = @ + 1,
                    !.current = current,
                    !.matched = matched,
                    !.evaluated = matched,
                    !.fired = IF matched THEN Append(@, MinuteOf(cr.now))
                              ELSE @]
    /\ UNCHANGED <<rt, pp, sw, tm, ev, rc, bt, ct, el, te, br, rn, dp>>

\* await self._execute_action_safely(...): the evaluation of the action
\* takes its time; an error of the action is logged and dropped.
CronLoopActionEnds ==
    /\ cr.pc = "action"
    /\ \E seconds \in ActionSeconds :
         cr' = [cr EXCEPT !.pc = "sleep", !.now = @ + seconds]
    /\ UNCHANGED <<rt, pp, sw, tm, ev, rc, bt, ct, el, te, br, rn, dp>>

\* wait_seconds = self._get_seconds_until_next_minute()
\* await asyncio.sleep(wait_seconds)
CronLoopSleeps ==
    /\ cr.pc = "sleep"
    /\ cr' = [cr EXCEPT !.pc = "check",
                        !.now = @ + GetSecondsUntilNextMinute(cr.now)]
    /\ UNCHANGED <<rt, pp, sw, tm, ev, rc, bt, ct, el, te, br, rn, dp>>

\* The task is cancelled at the await it is suspended at.
CronLoopCancelled ==
    /\ cr.pc \in {"action", "sleep"}
    /\ cr' = [cr EXCEPT !.pc = "exited"]
    /\ UNCHANGED <<rt, pp, sw, tm, ev, rc, bt, ct, el, te, br, rn, dp>>

InitCron == CronInit /\ rt = Idle /\ pp = Idle /\ sw = Idle /\ tm = Idle
    /\ ev = Idle /\ rc = Idle /\ bt = Idle /\ ct = Idle /\ el = Idle
    /\ te = Idle
    /\ br = Idle
    /\ rn = Idle
    /\ dp = Idle

NextCron ==
    \/ CronLoopChecks
    \/ CronLoopActionEnds
    \/ CronLoopSleeps
    \/ CronLoopCancelled

SpecCron == InitCron /\ [][NextCron]_vars

\* C21: a pattern of five components matches the wall-clock tuple exactly
\* when each of its components is the wildcard or equals the calendar field
\* at its position, and the action is evaluated in an iteration exactly
\* when the pattern matches.
C21_CronPatternMatch ==
    (cr.iterations > 0 /\ Len(cr.pattern) = 5) =>
        /\ cr.matched <=>
              \A i \in 1..5 : cr.pattern[i] = Wild
                                \/ cr.pattern[i] = cr.current[i]
        /\ cr.evaluated <=> cr.matched

\* 00:00 of 1 January has matched the pattern (0, 0, 1, *, 2) and the
\* action is being evaluated.
C21_Witness ==
    /\ cr.pc = "action"
    /\ cr.pattern = <<VInt(0), VInt(0), VInt(1), Wild, VInt(2)>>
    /\ cr.matched /\ cr.evaluated
    /\ cr.current = <<VInt(0), VInt(0), VInt(1), VInt(1), VInt(2)>>

\* C22: with a pattern of wildcards only, the action is evaluated once in
\* every calendar minute from the registration on: never twice in a minute
\* and never skipping a minute, however long the action takes.
C22_OncePerMinute ==
    (\A i \in DOMAIN cr.pattern : cr.pattern[i] = Wild)
        /\ Len(cr.pattern) = 5 /\ cr.iterations > 0 =>
        /\ cr.fired[1] = MinuteOf(cr.registered)
        /\ \A k \in 1..(Len(cr.fired) - 1) :
              cr.fired[k + 1] = cr.fired[k] + 1
        /\ cr.pc = "check" => cr.fired[Len(cr.fired)] = MinuteOf(cr.now) - 1

\* ------------------------------------------------------------------------
\* language.py: ConfigTransformer.dictionary and DSLVisitor.run on a record
\* with triggers
\* ------------------------------------------------------------------------
\* The items of a record as the parser hands them to the transformer, in
\* source order: a declaration or mapping (key, value), a trigger (a cron
\* pattern as key, the action as value), a bare function call.
ItemPair(key, val) == [kind |-> "pair", key |-> key, val |-> val]
ItemTrigger(pattern, action) ==
    [kind |-> "trigger", pattern |-> pattern, action |-> action]
ItemCall(call) == [kind |-> "stmt", val |-> call]

\* f"__stmt_{item[1]}"
StmtKey(name) ==
    CASE name = "probe" -> "__stmt_probe"
      [] name = "f"     -> "__stmt_f"
      [] OTHER          -> "__stmt_"

\* res[key] = value on a Python dict: a key the dict has keeps its place and
\* takes the new value, a new key goes to the end.
DictSet(res, key, val) ==
    IF \E j \in DOMAIN res : res[j].key = key
    THEN [j \in DOMAIN res |->
            IF res[j].key = key THEN Entry(key, val) ELSE res[j]]
    ELSE Append(res, Entry(key, val))

\* ConfigTransformer.dictionary: the dict of the items and the list of the
\* triggers found among them.
RECURSIVE Dictionary(_, _, _, _)
Dictionary(items, i, res, triggers) ==
    IF i > Len(items) THEN [entries |-> res, triggers |-> triggers]
    ELSE LET item == items[i]
         IN  CASE item.kind = "trigger" ->
                    Dictionary(items, i + 1, res,
                               Append(triggers,
                                      [key |-> item.pattern,
                                       action |-> item.action]))
               [] item.kind = "pair" ->
                    Dictionary(items, i + 1,
                               DictSet(res, item.key, item.val), triggers)
               [] item.kind = "stmt" ->
                    Dictionary(items, i + 1,
                               DictSet(res, PlainKey(StmtKey(item.val.name)),
                                       item.val),
                               triggers)

\* The items of the records of the model:
\*   int:a := 1;   int:b := 2;   any:a := probe(7);
\*   (*, *, *, *, *) : probe(a, b);   probe(1);   probe(2);   f(3);
SourceItems ==
    {ItemPair(DeclA.key, DeclA.val),
     ItemPair(TypedKey("int", "b"), NLit(VInt(2))),
     ItemPair(TypedKey("any", "a"), NCall("probe", <<NLit(VInt(7))>>)),
     ItemTrigger(<<Wild, Wild, Wild, Wild, Wild>>,
                 NCall("probe", <<NVar("a"), NVar("b")>>)),
     ItemCall(NCall("probe", <<NLit(VInt(1))>>)),
     ItemCall(NCall("probe", <<NLit(VInt(2))>>)),
     ItemCall(NCall("f", <<NLit(VInt(3))>>))}

SourceRecords == SeqsUpTo(SourceItems, MaxItems)

\* _process_triggers: one task per trigger, each given the working scope.
ProcessTriggers(triggers, ctx) ==
    [i \in DOMAIN triggers |->
        [key |-> triggers[i].key, action |-> triggers[i].action,
         ctx |-> ctx, pc |-> "created", fired |-> FALSE, seen |-> <<>>]]

\* _wait_for_background_tasks is over: asyncio.gather has every task done.
BackgroundTasksDone(tasks) == \A i \in DOMAIN tasks : tasks[i].pc = "exited"

RunInit ==
    \E items \in SourceRecords :
        rn = [pc |-> "start", items |-> items,
              triggers |-> Dictionary(items, 1, <<>>, <<>>).triggers,
              self |-> NewVisitor(Dictionary(items, 1, <<>>, <<>>).entries),
              index |-> 1, working_ctx |-> EmptyContext,
              res |-> EmptyContext, tasks |-> <<>>, error |-> "",
              result |-> None]

\* run, up to the loop of _visit_dict on the root.
RunStarts ==
    /\ rn.pc = "start"
    /\ rn' = [rn EXCEPT
                !.pc = "items",
                !.self = [root_data |-> InjectExecutorToRoot(rn.self.root_data),
                          depth |-> 1, calls |-> <<>>],
                !.working_ctx = PrepareWorkingContext(EmptyContext)]
    /\ UNCHANGED <<rt, pp, sw, tm, ev, rc, bt, ct, el, te, cr, br, dp>>

\* One item of the root record.
RunItem ==
    /\ rn.pc = "items"
    /\ rn.index <= Len(rn.self.root_data)
    /\ rn' = AfterItem(rn, VisitDictItem(rn.self.root_data[rn.index],
                                         rn.working_ctx, rn.res, rn.self))
    /\ UNCHANGED <<rt, pp, sw, tm, ev, rc, bt, ct, el, te, cr, br, dp>>

\* The loop of _visit_dict is over: the trigger tasks are created with the
\* working scope and visit returns the result record.  Without background
\* tasks run returns it; otherwise run waits for them.
RunProcessTriggers ==
    /\ rn.pc = "items"
    /\ rn.index > Len(rn.self.root_data)
    /\ rn' = [rn EXCEPT
                !.pc = IF rn.triggers = <<>> THEN "returned" ELSE "waiting",
                !.tasks = ProcessTriggers(rn.triggers, rn.working_ctx),
                !.result = IF rn.triggers = <<>> THEN VDict(rn.res) ELSE None,
                !.self = [rn.self EXCEPT !.depth = 0]]
    /\ UNCHANGED <<rt, pp, sw, tm, ev, rc, bt, ct, el, te, cr, br, dp>>

\* A trigger task at the top of its cron loop: the pattern of wildcards
\* matches and the action is visited in the scope the task was given.
RunTaskFires ==
    /\ rn.pc = "waiting"
    /\ \E i \in DOMAIN rn.tasks :
         /\ rn.tasks[i].pc \in {"created", "ready"}
         /\ LET r == Visit(rn.tasks[i].action, rn.tasks[i].ctx,
                           [rn.self EXCEPT !.calls = <<>>])
            IN  rn' = [rn EXCEPT
                         !.tasks[i].pc = "sleeping",
                         !.tasks[i].fired = TRUE,
                         !.tasks[i].seen =
                             IF r.self.calls = <<>> THEN <<>>
                             ELSE r.self.calls[1].args]
    /\ UNCHANGED <<rt, pp, sw, tm, ev, rc, bt, ct, el, te, cr, br, dp>>

\* The sleep to the next minute is over.
RunTaskWakes ==
    /\ rn.pc = "waiting"
    /\ \E i \in DOMAIN rn.tasks :
         /\ rn.tasks[i].pc = "sleeping"
         /\ rn' = [rn EXCEPT !.tasks[i].pc = "ready"]
    /\ UNCHANGED <<rt, pp, sw, tm, ev, rc, bt, ct, el, te, cr, br, dp>>

\* Somebody who holds the task cancels it: its loop breaks.
RunTaskCancelled ==
    /\ rn.pc = "waiting"
    /\ \E i \in DOMAIN rn.tasks :
         /\ rn.tasks[i].pc # "exited"
         /\ rn' = [rn EXCEPT !.tasks[i].pc = "exited"]
    /\ UNCHANGED <<rt, pp, sw, tm, ev, rc, bt, ct, el, te, cr, br, dp>>

\* Every background task is done: run returns the result record.
RunReturns ==
    /\ rn.pc = "waiting"
    /\ BackgroundTasksDone(rn.tasks)
    /\ rn' = [rn EXCEPT !.pc = "returned", !.result = VDict(rn.res)]
    /\ UNCHANGED <<rt, pp, sw, tm, ev, rc, bt, ct, el, te, cr, br, dp>>

InitRun == RunInit /\ rt = Idle /\ pp = Idle /\ sw = Idle /\ tm = Idle
    /\ ev = Idle /\ rc = Idle /\ bt = Idle /\ ct = Idle /\ el = Idle
    /\ te = Idle /\ cr = Idle /\ br = Idle
    /\ dp = Idle

\* The steps of run and of its tasks, which the event loop schedules.
RunProgress ==
    \/ RunStarts
    \/ RunItem
    \/ RunProcessTriggers
    \/ RunTaskFires
    \/ RunTaskWakes
    \/ RunReturns

NextRun == RunProgress \/ RunTaskCancelled

SpecRun == InitRun /\ [][NextRun]_vars

\* The event loop runs every coroutine that can go on: run itself, the
\* trigger tasks, the end of the wait.  Nothing obliges anybody to cancel a
\* trigger task.
SpecRunFair ==
    /\ SpecRun
    /\ WF_vars(RunStarts \/ RunItem \/ RunProcessTriggers)
    /\ WF_vars(RunTaskFires \/ RunTaskWakes)
    /\ WF_vars(RunReturns)

\* The position in the source of the i-th trigger of the record.
TriggerPositions(items) ==
    {p \in DOMAIN items : items[p].kind = "trigger"}

TriggerPosition(items, i) ==
    CHOOSE p \in TriggerPositions(items) :
        Cardinality({q \in TriggerPositions(items) : q <= p}) = i

\* The names bound by the declarations and mappings before position p.
NamesBoundBefore(items, p) ==
    {items[q].key.name :
        q \in {j \in DOMAIN items : j < p /\ items[j].kind = "pair"}}

\* C23: a trigger's action runs in the scope as it was at the trigger
\* item's position: every name of the scope the action ran in (the executor
\* aside) was bound by an item that precedes the trigger item.
C23_TriggerScopeAtPosition ==
    rn.pc = "idle"
    \/ \A i \in DOMAIN rn.tasks :
          rn.tasks[i].fired =>
            \A n \in DOMAIN rn.tasks[i].ctx :
                \/ n = "__execute_dsl_function__"
                \/ n \in NamesBoundBefore(rn.items,
                                          TriggerPosition(rn.items, i))
                \/ n \in {StmtKey(f) : f \in FunctionsMap}

\* C24: a run of a source with triggers returns the record to its caller
\* once the items are evaluated, whatever the trigger loops do.
C24_RunReturnsWithTriggers ==
    (rn.pc = "waiting") ~> (rn.pc = "returned")

\* The calls a record's items make, item by item in source order; the
\* arguments of the calls of the model's items are literals.
RECURSIVE CallsInSourceOrder(_, _)
CallsInSourceOrder(items, i) ==
    IF i > Len(items) THEN <<>>
    ELSE IF items[i].kind # "trigger" /\ items[i].val.k = "call"
    THEN <<[fn |-> items[i].val.name,
            args |-> [j \in DOMAIN items[i].val.args |->
                         items[i].val.args[j].v]]>>
         \o CallsInSourceOrder(items, i + 1)
    ELSE CallsInSourceOrder(items, i + 1)

\* C29: when the items of a record have been evaluated, each was evaluated
\* once and in source order: the calls made are the calls of the items, one
\* per calling item, in the order of the source.
C29_ItemsOnceInSourceOrder ==
    rn.pc \in {"waiting", "returned"} =>
        rn.self.calls = CallsInSourceOrder(rn.items, 1)

\* ------------------------------------------------------------------------
\* language.py: DSLVisitor.visit and _recursion_depth, call by call, in the
\* iterations of a trigger loop
\* ------------------------------------------------------------------------
\* How deep the visits of an action nest: a flat action, one nested once,
\* and actions that nest up to and beyond MAX_RECURSION_DEPTH.
Nestings == {1, 2, MAX_RECURSION_DEPTH, MAX_RECURSION_DEPTH + 1}

DepthInit ==
    dp = [pc |-> "idle", depth |-> 0, frames |-> 0, nesting |-> 0,
          before |-> 0, error |-> "", iterations |-> 0]

\* An iteration of _event_loop or _cron_loop calls visit on the action.
IterationStarts ==
    /\ dp.pc = "idle"
    /\ dp.iterations < MaxIterations
    /\ \E n \in Nestings :
         dp' = [dp EXCEPT !.pc = "visiting", !.nesting = n, !.frames = 0,
                          !.before = dp.depth, !.error = "",
                          !.iterations = @ + 1]
    /\ UNCHANGED <<rt, pp, sw, tm, ev, rc, bt, ct, el, te, cr, br, rn>>

\* visit is called, by the loop or by a visit in its try block: the counter
\* goes up; beyond the limit DSLRecursionError is raised before the try
\* block is entered, otherwise the call is in its try block.
VisitEnters ==
    /\ dp.pc = "visiting"
    /\ dp.frames < dp.nesting
    /\ dp' = IF dp.depth + 1 > MAX_RECURSION_DEPTH
             THEN [dp EXCEPT !.depth = @ + 1, !.pc = "raising",
                             !.error = "DSLRecursionError"]
             ELSE [dp EXCEPT !.depth = @ + 1, !.frames = @ + 1]
    /\ UNCHANGED <<rt, pp, sw, tm, ev, rc, bt, ct, el, te, cr, br, rn>>

\* The interpreter's own recursion limit, which depends on its settings and
\* on the stack of the caller, stops the descent inside a try block.
VisitHitsInterpreterLimit ==
    /\ dp.pc = "visiting"
    /\ dp.frames >= 1
    /\ dp.frames < dp.nesting
    /\ dp' = [dp EXCEPT !.pc = "raising", !.error = "RecursionError"]
    /\ UNCHANGED <<rt, pp, sw, tm, ev, rc, bt, ct, el, te, cr, br, rn>>

\* A call of visit leaves its try block, with its value or with the
\* exception passing through: the finally block takes the counter down.
VisitLeaves ==
    /\ dp.frames > 0
    /\ \/ dp.pc \in {"returning", "raising"}
       \/ dp.pc = "visiting" /\ dp.frames = dp.nesting
    /\ dp' = [dp EXCEPT !.frames = @ - 1, !.depth = @ - 1,
                        !.pc = IF @ = "visiting" THEN "returning" ELSE @]
    /\ UNCHANGED <<rt, pp, sw, tm, ev, rc, bt, ct, el, te, cr, br, rn>>

\* The loop has the action's value, or its except clause the exception;
\* the loop sleeps until its next iteration.
IterationEnds ==
    /\ dp.pc \in {"returning", "raising"}
    /\ dp.frames = 0
    /\ dp' = [dp EXCEPT !.pc = "idle"]
    /\ UNCHANGED <<rt, pp, sw, tm, ev, rc, bt, ct, el, te, cr, br, rn>>

InitDepth == DepthInit /\ rt = Idle /\ pp = Idle /\ sw = Idle /\ tm = Idle
    /\ ev = Idle /\ rc = Idle /\ bt = Idle /\ ct = Idle /\ el = Idle
    /\ te = Idle /\ cr = Idle /\ br = Idle /\ rn = Idle

NextDepth ==
    \/ IterationStarts
    \/ VisitEnters
    \/ VisitHitsInterpreterLimit
    \/ VisitLeaves
    \/ IterationEnds

SpecDepth == InitDepth /\ [][NextDepth]_vars

\* C30: when a call of visit made by a trigger iteration has returned or
\* raised, the depth counter is what it was before the call, and it is 0
\* whenever no evaluation is in progress.
C30_DepthRestored ==
    /\ dp.pc \in {"returning", "raising"} /\ dp.frames = 0
           => dp.depth = dp.before
    /\ dp.pc = "idle" /\ dp.frames = 0 => dp.depth = 0

=============================================================================
